---- MODULE Spec2Model ----
(***************************************************************************)
(* A state-machine model of views::NativeMenuWin                           *)
(* (src/views/controls/menu/native_menu_win.cc): the controller that       *)
(* builds a Win32 popup menu from a ui::MenuModel, keeps the per-item      *)
(* registry items_ in step with it, and runs the menu's modal loop.        *)
(*                                                                         *)
(* Model indices are 0-based as in the source; TLA+ sequences are 1-based, *)
(* so registry entry i of the source is items_[i + 1] here.                *)
(***************************************************************************)
EXTENDS Integers, Sequences, FiniteSets, TLC

(* ------------------------------ bounds --------------------------------- *)

\* Longest root menu model.
MaxItems == 2
\* Longest submenu model.
MaxSubItems == 1
\* NativeMenuWin objects that can be allocated (two roots and children).
MaxCtl == 4
\* HMENU values the OS can hand out before the model stops creating menus.
MaxHandles == 4
\* Changes the application makes to the menu models in one behaviour.
MaxModelOps == 1
\* RunMenuAt calls that can be in progress at once (one inside another).
MaxDepth == 2
\* RunMenuAt calls in one behaviour.
MaxRuns == 2
\* Longest listener list.
MaxListeners == 2
\* Rebuild calls on a controller that has a menu, in one behaviour.
MaxRebuilds == 1

NULL == 0

(* --------------------------- the menu model ---------------------------- *)

\* ui::MenuModel::ItemType
TYPE_COMMAND == "TYPE_COMMAND"
TYPE_CHECK == "TYPE_CHECK"
TYPE_RADIO == "TYPE_RADIO"
TYPE_SEPARATOR == "TYPE_SEPARATOR"
TYPE_SUBMENU == "TYPE_SUBMENU"

RootModel == 1
SubModel == 2
ModelIds == {RootModel, SubModel}

\* The root controllers, constructed by the application; every other
\* controller is the wrapper of a Menu2 owned by a registry entry.
Roots == {1, 2}
CtlIds == 1..MaxCtl
Handles == 1..MaxHandles

Labels == {<<"A">>, <<"B">>}

\* A fresh model item of each type.  The command ids, the dynamic flags and
\* the accelerators are fixed per type; label, enabled and checked change.
\* accel = "" means GetAcceleratorAt returns false.
NewItem(type) ==
  [type |-> type,
   cmd |-> CASE type = TYPE_COMMAND -> 1
             [] type = TYPE_CHECK -> 2
             [] type = TYPE_RADIO -> 3
             [] OTHER -> 0,
   label |-> IF type = TYPE_SEPARATOR THEN <<>> ELSE <<"A">>,
   enabled |-> TRUE,
   checked |-> FALSE,
   dynamic |-> type \in {TYPE_CHECK, TYPE_RADIO, TYPE_SUBMENU},
   accel |-> CASE type = TYPE_COMMAND -> "Ctrl+T"
               [] type = TYPE_RADIO -> "Ctrl+R"
               [] type = TYPE_SUBMENU -> "Alt+S"
               [] OTHER -> "",
   sub |-> IF type = TYPE_SUBMENU THEN SubModel ELSE NULL]

RootTypes == {TYPE_COMMAND, TYPE_CHECK, TYPE_RADIO, TYPE_SEPARATOR, TYPE_SUBMENU}
SubTypes == {TYPE_CHECK, TYPE_SEPARATOR}

SeqsUpTo(S, n) == UNION {[1..k -> S] : k \in 0..n}

VARIABLES
  models,      \* the application's menu models: items, HasIcons, kind
  modelOps,    \* how many times the application has changed a model
  ctl,         \* the heap of NativeMenuWin objects
  os,          \* the OS menu resources, by HMENU
  sysMenu,     \* the window's current system menu (GetSystemMenu), or NULL
  needOverrideFont, \* l10n_util::NeedOverrideDefaultUIFont, fixed per process
  fault,       \* "none", or why the process has aborted
  last,        \* the controller operation that ran last
  open_native_menu_win_,  \* the static NativeMenuWin::open_native_menu_win_
  stack,       \* the RunMenuAt calls in progress, the innermost last
  endMenu,     \* ::EndMenu has been called and the loop has not yet ended
  turn,        \* the OS is delivering WM_EXITMENULOOP and what follows it
  msgs,        \* the MessageLoop's posted tasks, and what the models were told
  runs,        \* how many RunMenuAt calls there have been
  builds,      \* how many Rebuild calls there have been on a built controller
  about        \* the about: pages: the build, the browser threads' task
               \* queues, the data requests and the registered data sources

worldVars == <<ctl, os, sysMenu, fault>>
modelVars == <<models, modelOps, needOverrideFont, about>>
runVars == <<open_native_menu_win_, stack, endMenu, turn, msgs, runs>>
loopVars == <<runVars, builds>>

vars == <<models, modelOps, ctl, os, sysMenu, needOverrideFont, fault, last,
          open_native_menu_win_, stack, endMenu, turn, msgs, runs, builds,
          about>>

\* The preprocessor symbols browser_about_handler.cc is compiled under. A
\* Chrome OS build is a Linux build as well.
Builds ==
  { b \in [chromeos : BOOLEAN, linux : BOOLEAN, tcmalloc : BOOLEAN,
           track_tasks : BOOLEAN] : b.chromeos => b.linux }

WindowsBuild ==
  [chromeos |-> FALSE, linux |-> FALSE, tcmalloc |-> FALSE,
   track_tasks |-> FALSE]

\* The browser threads that take posted tasks here.
BrowserThreads == {"UI", "IO"}

\* The about: pages of a process that has served no request yet: nothing
\* posted to either thread, no handler waiting, nothing sent, no data source
\* registered with the ChromeURLDataManager.
AboutIdle(build) ==
  [build |-> build,
   queue |-> [t \in BrowserThreads |-> <<>>],
   waiting |-> {},
   started |-> <<>>,
   collected |-> <<>>,
   responses |-> <<>>,
   sources |-> {}]

(* --------------------- MenuModel, as the code reads it ----------------- *)

GetItemCount(m) == Len(models[m].items)
InRange(m, i) == i >= 0 /\ i < GetItemCount(m)
ItemAt(m, i) == models[m].items[i + 1]
GetTypeAt(m, i) == ItemAt(m, i).type
GetCommandIdAt(m, i) == ItemAt(m, i).cmd
GetLabelAt(m, i) == ItemAt(m, i).label
IsEnabledAt(m, i) == ItemAt(m, i).enabled
IsItemCheckedAt(m, i) == ItemAt(m, i).checked
IsItemDynamicAt(m, i) == ItemAt(m, i).dynamic
GetAcceleratorAt(m, i) == ItemAt(m, i).accel
GetSubmenuModelAt(m, i) == ItemAt(m, i).sub
HasIcons(m) == models[m].icons

(* ------------------------------ the OS --------------------------------- *)

\* hilite is the position of the item that has MF_HILITE, or -1.
FreeMenu ==
  [st |-> "free", items |-> <<>>, dwMenuData |-> NULL, style |-> {}, hilite |-> -1]
DeadMenu ==
  [st |-> "dead", items |-> <<>>, dwMenuData |-> NULL, style |-> {}, hilite |-> -1]

IsMenu(w, h) == h \in Handles /\ w.os[h].st = "live"

\* The entries of a window's default system menu.
SysDefaultItems ==
  << [fType |-> {"MFT_STRING"}, wID |-> 61456, fState |-> {}, dwTypeData |-> <<"Move">>,
      hSubMenu |-> NULL, dwItemData |-> NULL],
     [fType |-> {"MFT_STRING"}, wID |-> 61536, fState |-> {}, dwTypeData |-> <<"Close">>,
      hSubMenu |-> NULL, dwItemData |-> NULL] >>

\* The handle values something still holds: a controller's menu_, a live
\* menu's submenu entries, the window's system menu, a running modal loop.
HeldHandles(w) ==
  {w.ctl[c].menu_ : c \in {d \in CtlIds : w.ctl[d].alive}}
  \cup UNION {{w.os[h].items[k].hSubMenu : k \in 1..Len(w.os[h].items)} : h \in Handles}
  \cup {w.sys} \cup w.tracked

\* The values the OS can give a new menu: any value that names no live menu.
\* A dead value nobody holds any more is as good as a value never used, so
\* the model takes the smallest value that is neither live nor held.
FreeHandles(w) == {h \in Handles : w.os[h].st # "live" /\ h \notin HeldHandles(w)}
FreshHandle(w) == CHOOSE h \in FreeHandles(w) : \A g \in FreeHandles(w) : h <= g

\* ::GetMenuItemCount: -1 for a handle that is no menu.
GetMenuItemCount(w, h) == IF IsMenu(w, h) THEN Len(w.os[h].items) ELSE -1

\* ::DestroyMenu destroys the menu and, recursively, its submenus.
RECURSIVE DestroyMenuSet(_, _)
DestroyMenuSet(w, h) ==
  IF ~IsMenu(w, h) THEN {}
  ELSE LET subs == {w.os[h].items[k].hSubMenu : k \in 1..Len(w.os[h].items)} \ {NULL}
       IN {h} \cup UNION {DestroyMenuSet(w, s) : s \in subs}

DestroyMenu(w, h) ==
  LET gone == DestroyMenuSet(w, h)
  IN [w EXCEPT !.os = [g \in Handles |-> IF g \in gone THEN DeadMenu ELSE w.os[g]]]

\* ::CreatePopupMenu: a new, empty menu under a handle never used before.
CreatePopupMenu(w) ==
  LET h == FreshHandle(w)
  IN [w |-> [w EXCEPT !.os[h] = [FreeMenu EXCEPT !.st = "live"]], h |-> h]

\* ::GetSystemMenu(hwnd, TRUE): the window menu goes back to its default
\* state and the previous copy is destroyed.
GetSystemMenuRevert(w) ==
  IF w.sys = NULL THEN w ELSE [DestroyMenu(w, w.sys) EXCEPT !.sys = NULL]

\* ::GetSystemMenu(hwnd, FALSE): the window's copy of the system menu, made
\* from the default entries when the window has none.
GetSystemMenu(w) ==
  IF w.sys # NULL THEN [w |-> w, h |-> w.sys]
  ELSE LET h == FreshHandle(w)
       IN [w |-> [w EXCEPT !.os[h] = [FreeMenu EXCEPT !.st = "live",
                                                     !.items = SysDefaultItems],
                            !.sys = h],
           h |-> h]

InsertAt(s, pos, e) ==
  LET p == IF pos > Len(s) THEN Len(s) ELSE pos
  IN SubSeq(s, 1, p) \o <<e>> \o SubSeq(s, p + 1, Len(s))

\* ::InsertMenuItem(menu, index, TRUE, &mii): by position; past the end it
\* appends; on a handle that is no menu it fails and changes nothing.
InsertMenuItem(w, h, menu_index, mii) ==
  IF ~IsMenu(w, h) \/ menu_index < 0 THEN w
  ELSE [w EXCEPT !.os[h].items = InsertAt(@, menu_index, mii)]

ValidPos(w, h, menu_index) ==
  IsMenu(w, h) /\ menu_index >= 0 /\ menu_index < Len(w.os[h].items)

OsItem(w, h, menu_index) == w.os[h].items[menu_index + 1]

(* --------------------------- NativeMenuWin ----------------------------- *)

MENU_ACTION_NONE == "MENU_ACTION_NONE"
MENU_ACTION_PREVIOUS == "MENU_ACTION_PREVIOUS"
MENU_ACTION_NEXT == "MENU_ACTION_NEXT"

\* What a member that no constructor initialises can hold: the patterns of
\* heap garbage the model distinguishes.  model_index 1 is a value that may
\* happen to equal the entry's own index; -1 never does.
Indeterminate ==
  { [model_index |-> -1, native_menu_win |-> NULL, flag |-> FALSE],
    [model_index |-> 1, native_menu_win |-> 1, flag |-> TRUE] }

\* The constructor.  listeners_called_ is not in the initialiser list.
NativeMenuWin(model, system_menu_for, u) ==
  [alive |-> TRUE,
   model_ |-> model,
   menu_ |-> NULL,
   owner_draw_ |-> needOverrideFont /\ system_menu_for = NULL,
   system_menu_for_ |-> system_menu_for,
   first_item_index_ |-> 0,
   menu_action_ |-> MENU_ACTION_NONE,
   items_ |-> <<>>,
   listeners_ |-> <<>>,
   listeners_called_ |-> u.flag,
   host_window_ |-> FALSE,
   host_windows |-> 0]

FreeCtl ==
  [alive |-> FALSE, model_ |-> NULL, menu_ |-> NULL, owner_draw_ |-> FALSE,
   system_menu_for_ |-> NULL, first_item_index_ |-> 0,
   menu_action_ |-> MENU_ACTION_NONE, items_ |-> <<>>, listeners_ |-> <<>>,
   listeners_called_ |-> FALSE, host_window_ |-> FALSE,
   host_windows |-> 0]

FreeCtls(w) == {c \in CtlIds : ~w.ctl[c].alive}
FreshCtl(w) == CHOOSE c \in FreeCtls(w) : \A d \in FreeCtls(w) : c <= d

\* MenuWrapper::CreateWrapper: a new NativeMenuWin on the Menu2's model.
CreateWrapper(w, model, u) ==
  LET id == FreshCtl(w)
  IN [w |-> [w EXCEPT !.ctl[id] = NativeMenuWin(model, NULL, u)], id |-> id]

IsWindow(hwnd) == hwnd # NULL

GetNativeMenu(w, c) == w.ctl[c].menu_

ResetNativeMenu(w, c) ==
  LET me == w.ctl[c]
  IN IF IsWindow(me.system_menu_for_)
     THEN LET w1 == IF me.menu_ # NULL THEN GetSystemMenuRevert(w) ELSE w
              r == GetSystemMenu(w1)
          IN [r.w EXCEPT !.ctl[c].menu_ = r.h]
     ELSE LET w1 == IF me.menu_ # NULL THEN DestroyMenu(w, me.menu_) ELSE w
              r == CreatePopupMenu(w1)
          IN [r.w EXCEPT !.ctl[c].menu_ = r.h,
                         !.os[r.h].style = {"MNS_NOTIFYBYPOS"},
                         !.os[r.h].dwMenuData = c]

\* SystemMenuModel::GetFirstItemIndex without std::max: the item count less
\* one, whatever it is.
SystemGetFirstItemIndexNoMax(w, h) == GetMenuItemCount(w, h) - 1

\* SystemMenuModel::GetFirstItemIndex always 0: insertions go to the front.
SystemGetFirstItemIndexFront(w, h) == 0

\* SystemMenuModel::GetFirstItemIndex: insertions go before the last item.
SystemGetFirstItemIndex(w, h) ==
  LET n == GetMenuItemCount(w, h) - 1 IN IF n > 0 THEN n ELSE 0

\* MenuModel::GetFirstItemIndex: 0 unless the model is a SystemMenuModel.
GetFirstItemIndex(w, m, h) ==
  IF models[m].system THEN SystemGetFirstItemIndex(w, h) ELSE 0

\* UpdateMenuItemInfoForString handing the OS the text the entry held before
\* the new label was stored.
UpdateMenuItemInfoForStringStale(w, c, model_index, label) ==
  LET m == w.ctl[c].model_
      type == GetTypeAt(m, model_index)
      formatted == IF type # TYPE_SUBMENU /\ GetAcceleratorAt(m, model_index) # ""
                   THEN label \o <<"\t", GetAcceleratorAt(m, model_index)>>
                   ELSE label
  IN [w |-> [w EXCEPT !.ctl[c].items_[model_index + 1].label = formatted],
      dwTypeData |-> w.ctl[c].items_[model_index + 1].label]

UpdateMenuItemInfoForString(w, c, model_index, label) ==
  LET m == w.ctl[c].model_
      type == GetTypeAt(m, model_index)
      formatted == IF type # TYPE_SUBMENU /\ GetAcceleratorAt(m, model_index) # ""
                   THEN label \o <<"\t", GetAcceleratorAt(m, model_index)>>
                   ELSE label
  IN [w |-> [w EXCEPT !.ctl[c].items_[model_index + 1].label = formatted],
      dwTypeData |-> formatted]

IsSeparatorItemAt(w, c, menu_index) ==
  /\ ValidPos(w, w.ctl[c].menu_, menu_index)
  /\ "MFT_SEPARATOR" \in OsItem(w, w.ctl[c].menu_, menu_index).fType

AddSeparatorItemAt(w, c, menu_index, model_index, u) ==
  LET mii == [fType |-> {"MFT_SEPARATOR"}, wID |-> 0, fState |-> {},
              dwTypeData |-> <<>>, hSubMenu |-> NULL, dwItemData |-> NULL]
      dummy == [label |-> <<>>, submenu |-> NULL,
                native_menu_win |-> u.native_menu_win,
                model_index |-> u.model_index]
      w1 == [w EXCEPT !.ctl[c].items_ = InsertAt(@, model_index, dummy)]
  IN InsertMenuItem(w1, w1.ctl[c].menu_, menu_index, mii)

\* SetMenuItemState with the check mark flipped from what the OS shows
\* instead of taken from the model.
SetMenuItemStateToggles(w, c, menu_index, enabled, checked, is_default) ==
  IF IsSeparatorItemAt(w, c, menu_index) THEN w
  ELSE LET h == w.ctl[c].menu_
           shown == ValidPos(w, h, menu_index)
                    /\ "MFS_CHECKED" \in OsItem(w, h, menu_index).fState
           state == (IF enabled THEN {} ELSE {"MFS_DISABLED"})
                    \cup (IF checked # shown THEN {"MFS_CHECKED"} ELSE {})
       IN IF ValidPos(w, h, menu_index)
          THEN [w EXCEPT !.os[h].items[menu_index + 1].fState = state]
          ELSE w

\* SetMenuItemState that drops the checked flag.
SetMenuItemStateNoCheck(w, c, menu_index, enabled, checked, is_default) ==
  IF IsSeparatorItemAt(w, c, menu_index) THEN w
  ELSE LET h == w.ctl[c].menu_
       IN IF ValidPos(w, h, menu_index)
          THEN [w EXCEPT !.os[h].items[menu_index + 1].fState =
                            IF enabled THEN {} ELSE {"MFS_DISABLED"}]
          ELSE w

SetMenuItemState(w, c, menu_index, enabled, checked, is_default) ==
  IF IsSeparatorItemAt(w, c, menu_index) THEN w
  ELSE LET state == (IF enabled THEN {} ELSE {"MFS_DISABLED"})
                    \cup (IF checked THEN {"MFS_CHECKED"} ELSE {})
                    \cup (IF is_default THEN {"MFS_DEFAULT"} ELSE {})
           h == w.ctl[c].menu_
       IN IF ValidPos(w, h, menu_index)
          THEN [w EXCEPT !.os[h].items[menu_index + 1].fState = state]
          ELSE w

\* SetMenuItemLabel keeping the bare text: the accelerator is shown by the OS
\* item but not kept in the registry entry.
SetMenuItemLabelBare(w, c, menu_index, model_index, label) ==
  IF IsSeparatorItemAt(w, c, menu_index) THEN w
  ELSE LET r == UpdateMenuItemInfoForString(w, c, model_index, label)
           h == r.w.ctl[c].menu_
           w1 == [r.w EXCEPT !.ctl[c].items_[model_index + 1].label = label]
       IN IF ValidPos(w1, h, menu_index)
          THEN [w1 EXCEPT !.os[h].items[menu_index + 1].dwTypeData = r.dwTypeData]
          ELSE w1

SetMenuItemLabel(w, c, menu_index, model_index, label) ==
  IF IsSeparatorItemAt(w, c, menu_index) THEN w
  ELSE LET r == UpdateMenuItemInfoForString(w, c, model_index, label)
           h == r.w.ctl[c].menu_
       IN IF ValidPos(r.w, h, menu_index)
          THEN [r.w EXCEPT !.os[h].items[menu_index + 1].dwTypeData = r.dwTypeData]
          ELSE r.w

RECURSIVE Rebuild(_, _, _)
RECURSIVE AddMenuItemAt(_, _, _, _, _)
RECURSIVE Menu2New(_, _, _)
RECURSIVE RebuildFrom(_, _, _, _)

\* new Menu2(model): the wrapper is created and built at once.
Menu2New(w, model, u) ==
  LET r == CreateWrapper(w, model, u)
  IN [w |-> Rebuild(r.w, r.id, u), id |-> r.id]

\* AddMenuItemAt creating no Menu2 for a submenu item.
AddMenuItemAtNoSubmenu(w, c, menu_index, model_index, u) ==
  LET m == w.ctl[c].model_
      type == GetTypeAt(m, model_index)
      fType0 == IF ~w.ctl[c].owner_draw_ THEN {"MFT_STRING"} ELSE {"MFT_OWNERDRAW"}
      item_data == [label |-> <<>>, submenu |-> NULL, native_menu_win |-> c,
                    model_index |-> model_index]
      w1 == [w EXCEPT !.ctl[c].items_ = InsertAt(@, model_index, item_data)]
      s == UpdateMenuItemInfoForString(w1, c, model_index, GetLabelAt(m, model_index))
      mii == [fType |-> IF type = TYPE_RADIO THEN fType0 \cup {"MFT_RADIOCHECK"}
                        ELSE fType0,
              wID |-> IF type = TYPE_SUBMENU THEN 0 ELSE GetCommandIdAt(m, model_index),
              fState |-> {},
              dwTypeData |-> s.dwTypeData,
              hSubMenu |-> NULL,
              dwItemData |-> [ctl |-> c, model_index |-> model_index]]
  IN InsertMenuItem(s.w, s.w.ctl[c].menu_, menu_index, mii)

AddMenuItemAt(w, c, menu_index, model_index, u) ==
  LET m == w.ctl[c].model_
      type == GetTypeAt(m, model_index)
      fType0 == IF ~w.ctl[c].owner_draw_ THEN {"MFT_STRING"} ELSE {"MFT_OWNERDRAW"}
      r == IF type = TYPE_SUBMENU
           THEN Menu2New(w, GetSubmenuModelAt(m, model_index), u)
           ELSE [w |-> w, id |-> NULL]
      item_data == [label |-> <<>>, submenu |-> r.id, native_menu_win |-> c,
                    model_index |-> model_index]
      w1 == [r.w EXCEPT !.ctl[c].items_ = InsertAt(@, model_index, item_data)]
      s == UpdateMenuItemInfoForString(w1, c, model_index, GetLabelAt(m, model_index))
      mii == [fType |-> IF type = TYPE_RADIO THEN fType0 \cup {"MFT_RADIOCHECK"}
                        ELSE fType0,
              wID |-> IF type = TYPE_SUBMENU THEN 0 ELSE GetCommandIdAt(m, model_index),
              fState |-> {},
              dwTypeData |-> s.dwTypeData,
              hSubMenu |-> IF type = TYPE_SUBMENU THEN GetNativeMenu(s.w, r.id) ELSE NULL,
              dwItemData |-> [ctl |-> c, model_index |-> model_index]]
  IN InsertMenuItem(s.w, s.w.ctl[c].menu_, menu_index, mii)

\* The loop of Rebuild, from menu_index on.
RebuildFrom(w, c, menu_index, u) ==
  LET me == w.ctl[c]
      model_index == menu_index - me.first_item_index_
  IN IF menu_index < me.first_item_index_ + GetItemCount(me.model_)
     THEN RebuildFrom(IF GetTypeAt(me.model_, model_index) = TYPE_SEPARATOR
                      THEN AddSeparatorItemAt(w, c, menu_index, model_index, u)
                      ELSE AddMenuItemAt(w, c, menu_index, model_index, u),
                      c, menu_index + 1, u)
     ELSE w

\* Rebuild taking owner_draw_ from the model's icons alone.
RebuildOwnerDrawFromIcons(w, c, u) ==
  LET w1 == ResetNativeMenu(w, c)
      w2 == [w1 EXCEPT !.ctl[c].items_ = <<>>,
                       !.ctl[c].owner_draw_ = HasIcons(w1.ctl[c].model_)]
      w3 == [w2 EXCEPT !.ctl[c].first_item_index_ =
                          GetFirstItemIndex(w2, w2.ctl[c].model_, GetNativeMenu(w2, c))]
  IN RebuildFrom(w3, c, w3.ctl[c].first_item_index_, u)

\* Rebuild without items_.clear().
RebuildKeepsItems(w, c, u) ==
  LET w1 == ResetNativeMenu(w, c)
      w2 == [w1 EXCEPT !.ctl[c].owner_draw_ = HasIcons(w1.ctl[c].model_) \/ @]
      w3 == [w2 EXCEPT !.ctl[c].first_item_index_ =
                          GetFirstItemIndex(w2, w2.ctl[c].model_, GetNativeMenu(w2, c))]
  IN RebuildFrom(w3, c, w3.ctl[c].first_item_index_, u)

Rebuild(w, c, u) ==
  LET w1 == ResetNativeMenu(w, c)
      w2 == [w1 EXCEPT !.ctl[c].items_ = <<>>,
                       !.ctl[c].owner_draw_ = HasIcons(w1.ctl[c].model_) \/ @]
      w3 == [w2 EXCEPT !.ctl[c].first_item_index_ =
                          GetFirstItemIndex(w2, w2.ctl[c].model_, GetNativeMenu(w2, c))]
  IN RebuildFrom(w3, c, w3.ctl[c].first_item_index_, u)

RECURSIVE UpdateStates(_, _)
RECURSIVE UpdateStatesFrom(_, _, _)

\* The loop of UpdateStates, from model_index on.  A model asked about an
\* index it does not have aborts the process.
RECURSIVE UpdateStatesFromRelabelsAll(_, _, _)
\* The loop of UpdateStates without the IsItemDynamicAt test: every item is
\* given the model's label.
UpdateStatesFromRelabelsAll(w, c, model_index) ==
  LET me == w.ctl[c]
      m == me.model_
      menu_index == model_index + me.first_item_index_
  IN IF w.fault # "none" \/ model_index >= Len(me.items_) THEN w
     ELSE IF ~InRange(m, model_index)
     THEN [w EXCEPT !.fault = "model index out of range"]
     ELSE LET w1 == SetMenuItemState(w, c, menu_index, IsEnabledAt(m, model_index),
                                     IsItemCheckedAt(m, model_index), FALSE)
              w2 == SetMenuItemLabel(w1, c, menu_index, model_index,
                                     GetLabelAt(m, model_index))
              submenu == me.items_[model_index + 1].submenu
              w3 == IF submenu # NULL THEN UpdateStates(w2, submenu) ELSE w2
          IN UpdateStatesFromRelabelsAll(w3, c, model_index + 1)

UpdateStatesFrom(w, c, model_index) ==
  LET me == w.ctl[c]
      m == me.model_
      menu_index == model_index + me.first_item_index_
  IN IF w.fault # "none" \/ model_index >= Len(me.items_) THEN w
     ELSE IF ~InRange(m, model_index)
     THEN [w EXCEPT !.fault = "model index out of range"]
     ELSE LET w1 == SetMenuItemState(w, c, menu_index, IsEnabledAt(m, model_index),
                                     IsItemCheckedAt(m, model_index), FALSE)
              w2 == IF IsItemDynamicAt(m, model_index)
                    THEN SetMenuItemLabel(w1, c, menu_index, model_index,
                                          GetLabelAt(m, model_index))
                    ELSE w1
              submenu == me.items_[model_index + 1].submenu
              w3 == IF submenu # NULL THEN UpdateStates(w2, submenu) ELSE w2
          IN UpdateStatesFrom(w3, c, model_index + 1)

UpdateStates(w, c) == UpdateStatesFrom(w, c, 0)


(* ------------------------------ actions -------------------------------- *)

World ==
  [ctl |-> ctl, os |-> os, sys |-> sysMenu, fault |-> fault,
   tracked |-> {stack[k].menu : k \in 1..Len(stack)}]

\* A RunMenuAt call on controller c is in progress.
InLoop(c) == \E k \in 1..Len(stack) : stack[k].c = c

\* The application, or a callback the menu loop has called, can call into a
\* controller: the process is running and the OS is not in the middle of
\* delivering the end of a loop.
Callable == fault = "none" /\ ~turn.active

\* The record of the operation that has just run: its name, its controller,
\* whether the same operation on the same controller ran right before, and
\* whether it ran while a RunMenuAt call on the controller was in progress.
Ran(op, c) ==
  [op |-> op, c |-> c, twice |-> last.op = op /\ last.c = c,
   whileOpen |-> c # NULL /\ InLoop(c)]

SetWorld(w) ==
  /\ ctl' = w.ctl
  /\ os' = w.os
  /\ sysMenu' = w.sys
  /\ fault' = w.fault

\* The menus, and the controllers besides c itself, that building a
\* controller on model m creates.
RECURSIVE MenusNeeded(_)
MenusNeeded(m) ==
  LET subs == {i \in 0..(GetItemCount(m) - 1) : GetTypeAt(m, i) = TYPE_SUBMENU}
      RECURSIVE Sum(_)
      Sum(S) == IF S = {} THEN 0
                ELSE LET i == CHOOSE i \in S : TRUE
                     IN MenusNeeded(GetSubmenuModelAt(m, i)) + Sum(S \ {i})
  IN 1 + Sum(subs)

CanBuild(c) ==
  /\ Cardinality(FreeHandles(World)) >= MenusNeeded(ctl[c].model_)
  /\ Cardinality(FreeCtls(World)) >= MenusNeeded(ctl[c].model_) - 1

RebuildAct(c) ==
  /\ Callable
  /\ ctl[c].alive
  /\ CanBuild(c)
  /\ ctl[c].menu_ = NULL \/ builds < MaxRebuilds
  /\ builds' = IF ctl[c].menu_ = NULL THEN builds ELSE builds + 1
  /\ \E u \in Indeterminate : SetWorld(Rebuild(World, c, u))
  /\ last' = Ran("Rebuild", c)
  /\ UNCHANGED <<modelVars, runVars>>

UpdateStatesAct(c) ==
  /\ Callable
  /\ ctl[c].alive
  /\ SetWorld(UpdateStates(World, c))
  /\ last' = Ran("UpdateStates", c)
  /\ UNCHANGED <<modelVars, loopVars>>

\* The application changes a model: an item's label, enabled or checked
\* state, the icons, or the item list itself.
ModelChanged(new) ==
  /\ Callable
  /\ modelOps < MaxModelOps
  /\ models' = new
  /\ modelOps' = modelOps + 1
  /\ last' = Ran("ModelChange", NULL)
  /\ UNCHANGED <<worldVars, needOverrideFont, about, loopVars>>

ModelSetLabel ==
  \E m \in ModelIds : \E i \in 0..(GetItemCount(m) - 1) : \E l \in Labels :
    /\ GetTypeAt(m, i) # TYPE_SEPARATOR
    /\ l # GetLabelAt(m, i)
    /\ ModelChanged([models EXCEPT ![m].items[i + 1].label = l])

ModelSetEnabled ==
  \E m \in ModelIds : \E i \in 0..(GetItemCount(m) - 1) :
    /\ GetTypeAt(m, i) # TYPE_SEPARATOR
    /\ ModelChanged([models EXCEPT ![m].items[i + 1].enabled = ~@])

ModelSetChecked ==
  \E m \in ModelIds : \E i \in 0..(GetItemCount(m) - 1) :
    /\ GetTypeAt(m, i) \in {TYPE_CHECK, TYPE_RADIO}
    /\ ModelChanged([models EXCEPT ![m].items[i + 1].checked = ~@])

ModelSetIcons ==
  ModelChanged([models EXCEPT ![RootModel].icons = ~@])

ModelAppend ==
  \E t \in RootTypes :
    /\ GetItemCount(RootModel) < MaxItems
    /\ ModelChanged([models EXCEPT ![RootModel].items = Append(@, NewItem(t))])

ModelRemoveLast ==
  /\ GetItemCount(RootModel) > 0
  /\ ModelChanged([models EXCEPT ![RootModel].items = SubSeq(@, 1, Len(@) - 1)])

(* ----------------------- the modal loop: RunMenuAt --------------------- *)

Listeners == {"L1"}

Range(q) == {q[k] : k \in 1..Len(q)}
Count(x, q) == Cardinality({k \in 1..Len(q) : q[k] = x})

NoCmd == [menu |-> NULL, position |-> -1]

\* A call into a MenuModel: which call, on which model, with what position.
ToModel(kind, model, position) ==
  [kind |-> kind, to |-> "model", model |-> model, position |-> position]

\* One RunMenuAt call in progress: its controller, the menu
\* TrackPopupMenuEx is showing, and what has happened during the call:
\* whether the message hook has run (hooks counts its runs up to two), the
\* listener list at its first run, the listeners told OnMenuOpened, whether
\* the hook resolved a navigation key, and the listener list and
\* menu_action_ the call started with.
Frame(c, menu, atCall, entryAction) ==
  [c |-> c, menu |-> menu, hooked |-> FALSE, hooks |-> 0,
   atHook |-> <<>>, notified |-> <<>>, nav |-> FALSE, atCall |-> atCall,
   entryAction |-> entryAction]

\* CreateHostWindow without the test of host_window_: a new window replaces
\* the one held.
CreateHostWindowAnew(w, c) ==
  [w EXCEPT !.ctl[c].host_window_ = TRUE,
            !.ctl[c].host_windows = @ + 1]

\* CreateHostWindow: host_window_ says whether the controller holds a
\* MenuHostWindow, host_windows counts the ones it has constructed.
CreateHostWindow(w, c) ==
  IF ~w.ctl[c].host_window_
  THEN [w EXCEPT !.ctl[c].host_window_ = TRUE,
                 !.ctl[c].host_windows = @ + 1]
  ELSE w

\* RunMenuAt that leaves menu_action_ as the run before left it.
RunMenuAtKeepsAction(w, c) ==
  LET w1 == UpdateStates(CreateHostWindow(w, c), c)
  IN IF w1.fault # "none" THEN w1
     ELSE [w1 EXCEPT !.ctl[c].listeners_called_ = FALSE]

\* RunMenuAt that opens the menu without UpdateStates().
RunMenuAtStaleStates(w, c) ==
  LET w1 == CreateHostWindow(w, c)
  IN [w1 EXCEPT !.ctl[c].menu_action_ = MENU_ACTION_NONE,
                !.ctl[c].listeners_called_ = FALSE]

\* RunMenuAt up to the call of TrackPopupMenuEx, without the store to
\* open_native_menu_win_.
RunMenuAtPrologue(w, c) ==
  LET w1 == UpdateStates(CreateHostWindow(w, c), c)
  IN IF w1.fault # "none" THEN w1
     ELSE [w1 EXCEPT !.ctl[c].menu_action_ = MENU_ACTION_NONE,
                     !.ctl[c].listeners_called_ = FALSE]

\* GetHighlightedMenuItemInfo: the two out-parameters start false in the
\* caller and are only ever set.
RECURSIVE GetHighlightedMenuItemInfo(_, _)
GetHighlightedMenuItemInfo(w, menu) ==
  IF ~IsMenu(w, menu) \/ w.os[menu].hilite = -1
  THEN [found |-> FALSE, has_parent |-> FALSE, has_submenu |-> FALSE]
  ELSE LET item == OsItem(w, menu, w.os[menu].hilite)
       IN IF item.hSubMenu # NULL
          THEN LET r == GetHighlightedMenuItemInfo(w, item.hSubMenu)
               IN [found |-> TRUE,
                   has_parent |-> r.has_parent \/ r.found,
                   has_submenu |-> r.has_submenu \/ ~r.found]
          ELSE [found |-> TRUE, has_parent |-> FALSE, has_submenu |-> FALSE]

\* The messages the menu loop retrieves, as the hook sees them.
HookMessages ==
  { [message |-> "WM_MOUSEMOVE", wParam |-> "none"],
    [message |-> "WM_KEYDOWN", wParam |-> "VK_LEFT"],
    [message |-> "WM_KEYDOWN", wParam |-> "VK_RIGHT"],
    [message |-> "WM_KEYDOWN", wParam |-> "VK_DOWN"] }

\* MenuMessageHook telling the listeners on every call.
MenuMessageHookEveryTime(w, this_ptr, msg) ==
  LET me == w.ctl[this_ptr]
      info == GetHighlightedMenuItemInfo(w, me.menu_)
      action == IF msg.message # "WM_KEYDOWN" THEN "keep"
                ELSE IF msg.wParam = "VK_LEFT" /\ ~info.has_parent
                THEN MENU_ACTION_PREVIOUS
                ELSE IF msg.wParam = "VK_RIGHT" /\ ~info.has_parent /\ ~info.has_submenu
                THEN MENU_ACTION_NEXT
                ELSE "keep"
  IN [w |-> IF action = "keep" THEN w
            ELSE [w EXCEPT !.ctl[this_ptr].menu_action_ = action],
      notified |-> me.listeners_,
      end |-> action # "keep"]

\* MenuMessageHook resolving Right whatever is highlighted.
MenuMessageHookRightAlways(w, this_ptr, msg) ==
  LET me == w.ctl[this_ptr]
      notified == IF ~me.listeners_called_ THEN me.listeners_ ELSE <<>>
      w1 == [w EXCEPT !.ctl[this_ptr].listeners_called_ = TRUE]
      info == GetHighlightedMenuItemInfo(w1, me.menu_)
      action == IF msg.message # "WM_KEYDOWN" THEN "keep"
                ELSE IF msg.wParam = "VK_LEFT" /\ ~info.has_parent
                THEN MENU_ACTION_PREVIOUS
                ELSE IF msg.wParam = "VK_RIGHT"
                THEN MENU_ACTION_NEXT
                ELSE "keep"
  IN [w |-> IF action = "keep" THEN w1
            ELSE [w1 EXCEPT !.ctl[this_ptr].menu_action_ = action],
      notified |-> notified,
      end |-> action # "keep"]

\* MenuMessageHook with this_ptr not NULL: the controller after the hook,
\* the listeners it called, and whether it called ::EndMenu.
MenuMessageHook(w, this_ptr, msg) ==
  LET me == w.ctl[this_ptr]
      notified == IF ~me.listeners_called_ THEN me.listeners_ ELSE <<>>
      w1 == [w EXCEPT !.ctl[this_ptr].listeners_called_ = TRUE]
      info == GetHighlightedMenuItemInfo(w1, me.menu_)
      action == IF msg.message # "WM_KEYDOWN" THEN "keep"
                ELSE IF msg.wParam = "VK_LEFT" /\ ~info.has_parent
                THEN MENU_ACTION_PREVIOUS
                ELSE IF msg.wParam = "VK_RIGHT" /\ ~info.has_parent /\ ~info.has_submenu
                THEN MENU_ACTION_NEXT
                ELSE "keep"
  IN [w |-> IF action = "keep" THEN w1
            ELSE [w1 EXCEPT !.ctl[this_ptr].menu_action_ = action],
      notified |-> notified,
      end |-> action # "keep"]

Top == stack[Len(stack)]

\* No controller operation worth remembering ran last.
NoOp == [op |-> "none", c |-> NULL, twice |-> FALSE, whileOpen |-> FALSE]

\* RunMenuAt up to where TrackPopupMenuEx has started its loop.  On a handle
\* that is no menu TrackPopupMenuEx fails at once, and the step is the whole
\* of RunMenuAt: the slot is set and cleared again.
\* The alignments Menu2 names (menu_2.h), and any other int a caller passes.
Alignments == {"ALIGN_TOPLEFT", "ALIGN_TOPRIGHT", "ALIGN_TOPCENTER"}

TPM_LEFTBUTTON == 0
TPM_RECURSE == 1
TPM_TOPALIGN == 0
TPM_LEFTALIGN == 0
TPM_RIGHTALIGN == 8

\* a | b on UINTs.
RECURSIVE BitOr(_, _)
BitOr(a, b) ==
  IF a = 0 THEN b
  ELSE IF b = 0 THEN a
  ELSE (IF a % 2 = 1 \/ b % 2 = 1 THEN 1 ELSE 0) + 2 * BitOr(a \div 2, b \div 2)

GetAlignmentFlags(alignment) ==
  LET alignment_flags == TPM_TOPALIGN
  IN IF alignment = "ALIGN_TOPLEFT" THEN BitOr(alignment_flags, TPM_LEFTALIGN)
     ELSE IF alignment = "ALIGN_TOPRIGHT" THEN BitOr(alignment_flags, TPM_RIGHTALIGN)
     ELSE alignment_flags

\* The flags RunMenuAt hands to TrackPopupMenuEx.
TrackFlags(alignment) ==
  BitOr(BitOr(TPM_LEFTBUTTON, TPM_RECURSE), GetAlignmentFlags(alignment))

\* RunMenuAt(point, alignment) up to the entry of the menu loop.  With `told`
\* the step leaves a record of the call and of the flags in `last`.
Run(c, told) ==
  /\ Callable
  /\ c \in Roots
  /\ ctl[c].alive
  /\ Len(stack) < MaxDepth
  /\ runs < MaxRuns
  /\ runs' = runs + 1
  /\ \E alignment \in Alignments :
       last' = IF told
               THEN [op |-> "RunMenuAt", c |-> c, twice |-> FALSE, whileOpen |-> InLoop(c),
                     alignment |-> alignment, flags |-> TrackFlags(alignment)]
               ELSE NoOp
  /\ LET w == RunMenuAtPrologue(World, c)
         f == Frame(c, w.ctl[c].menu_, ctl[c].listeners_, ctl[c].menu_action_)
     IN /\ SetWorld(w)
        /\ IF w.fault # "none"
           THEN UNCHANGED <<open_native_menu_win_, stack>>
           ELSE IF IsMenu(w, w.ctl[c].menu_)
           THEN /\ open_native_menu_win_' = c
                /\ stack' = Append(stack, f)
           ELSE /\ open_native_menu_win_' = NULL
                /\ stack' = stack
  /\ UNCHANGED <<modelVars, builds, endMenu, turn, msgs>>

RunMenuAt(c) == Run(c, FALSE)

RunMenuAtTold(c) == Run(c, TRUE)

\* The menu loop retrieves a message and the WH_MSGFILTER hook runs.  With
\* `told` the step leaves a record of the call in `last`.
Hook(told) ==
  /\ Callable
  /\ stack # <<>>
  /\ \E msg \in HookMessages :
       IF open_native_menu_win_ = NULL
       THEN /\ fault' = "this_ptr is NULL in MenuMessageHook"
            /\ last' = NoOp
            /\ UNCHANGED <<ctl, os, sysMenu, stack, endMenu>>
       ELSE LET this_ptr == open_native_menu_win_
                r == MenuMessageHook(World, this_ptr, msg)
            IN /\ SetWorld(r.w)
               /\ stack' = [k \in 1..Len(stack) |->
                    LET f == stack[k]
                        g == IF k = Len(stack)
                             THEN [f EXCEPT !.hooked = TRUE,
                                            !.hooks = IF @ < 2 THEN @ + 1 ELSE @,
                                            !.atHook = IF f.hooked THEN @
                                                       ELSE ctl[this_ptr].listeners_,
                                            !.notified = @ \o r.notified]
                             ELSE f
                    IN IF r.end /\ f.c = this_ptr THEN [g EXCEPT !.nav = TRUE] ELSE g]
               /\ endMenu' = (endMenu \/ r.end)
               /\ last' = IF told
                          THEN [op |-> "MenuMessageHook", c |-> this_ptr, twice |-> FALSE,
                                whileOpen |-> TRUE, msg |-> msg,
                                before |-> ctl[this_ptr].menu_action_, end |-> r.end]
                          ELSE NoOp
  /\ UNCHANGED <<modelVars, builds, open_native_menu_win_, turn, msgs, runs>>

HookAct == Hook(FALSE)

HookActTold == Hook(TRUE)

(* --------------------------- MenuHostWindow ---------------------------- *)

GetNativeMenuWinFromHMENU(w, hmenu) ==
  IF IsMenu(w, hmenu) THEN w.os[hmenu].dwMenuData ELSE NULL

\* GetMenuItemIndexFromWPARAM walking the items backwards: the last item
\* whose id is w_param, or w_param itself.
GetMenuItemIndexFromWPARAMBackwards(w, menu, w_param) ==
  LET hits == {i \in 0..(GetMenuItemCount(w, menu) - 1) : OsItem(w, menu, i).wID = w_param}
  IN IF hits # {} THEN CHOOSE i \in hits : \A j \in hits : i >= j ELSE w_param

\* GetMenuItemIndexFromWPARAM: the first item whose id is w_param, or
\* w_param itself.
GetMenuItemIndexFromWPARAM(w, menu, w_param) ==
  LET hits == {i \in 0..(GetMenuItemCount(w, menu) - 1) : OsItem(w, menu, i).wID = w_param}
  IN IF hits # {} THEN CHOOSE i \in hits : \A j \in hits : i <= j ELSE w_param

\* order keeps the first two calls into the models since the last
\* WM_EXITMENULOOP.
Told(q, notice) ==
  [q EXCEPT !.order = IF Len(@) < 2 THEN Append(@, notice) ELSE @]

\* MenuHostWindow::OnMenuClosed, of the host window controller host made.
OnMenuClosed(w, q, host) ==
  [Told(q, ToModel("closed", w.ctl[host].model_, -1)) EXCEPT !.closed = @ + 1]

\* ProcessWindowMessage, WM_EXITMENULOOP arriving with OnMenuClosed called
\* on the spot.
ExitMenuLoopClosesInline(w, q, host) == OnMenuClosed(w, q, host)

\* ProcessWindowMessage, WM_EXITMENULOOP arriving with nothing posted.
ExitMenuLoopPostsNothing(w, q, host) == q

\* ProcessWindowMessage, WM_EXITMENULOOP: OnMenuClosed is posted to the
\* MessageLoop.
ProcessExitMenuLoop(w, q, host) ==
  [q EXCEPT !.tasks = Append(@, [host |-> host])]

\* The menus the loop of the innermost call is showing: the menu it tracks
\* and each submenu whose item is highlighted in a shown menu.
RECURSIVE ShownMenus(_, _)
ShownMenus(w, menu) ==
  IF ~IsMenu(w, menu) THEN {}
  ELSE {menu} \cup
       (IF w.os[menu].hilite # -1 /\ OsItem(w, menu, w.os[menu].hilite).hSubMenu # NULL
        THEN ShownMenus(w, OsItem(w, menu, w.os[menu].hilite).hSubMenu)
        ELSE {})

\* The user moves the highlight to item p of a shown menu; the submenus
\* under the menu close; WM_MENUSELECT reaches OnMenuSelect, which calls
\* HighlightChangedTo on the model of the menu's controller.  With `told`
\* the step leaves a record of the call in `last`.
\* OnMenuSelect without the test of the menu handle.
OnMenuSelectNoNullCheck(w, w_param, menu) ==
  LET position == GetMenuItemIndexFromWPARAM(w, menu, w_param)
      target == GetNativeMenuWinFromHMENU(w, menu)
  IN [fault |-> IF position >= 0 /\ target = NULL
                THEN "no NativeMenuWin for the HMENU in OnMenuSelect"
                ELSE w.fault,
      called |-> position >= 0 /\ target # NULL,
      position |-> position,
      target |-> target]

\* MenuHostWindow::OnMenuSelect: whether HighlightChangedTo is called, on
\* which controller's model and with what position, and the fault if the
\* handle has no controller.
OnMenuSelect(w, w_param, menu) ==
  IF menu = NULL
  THEN [fault |-> w.fault, called |-> FALSE, position |-> -1, target |-> NULL]
  ELSE LET position == GetMenuItemIndexFromWPARAM(w, menu, w_param)
           target == GetNativeMenuWinFromHMENU(w, menu)
       IN [fault |-> IF position >= 0 /\ target = NULL
                     THEN "no NativeMenuWin for the HMENU in OnMenuSelect"
                     ELSE w.fault,
           called |-> position >= 0 /\ target # NULL,
           position |-> position,
           target |-> target]

MenuSelect(told) ==
  /\ Callable
  /\ stack # <<>>
  /\ ctl[Top.c].host_window_
  /\ \E menu \in ShownMenus(World, Top.menu) :
     \E p \in 0..(Len(os[menu].items) - 1) :
       LET item == os[menu].items[p + 1]
           closing == DestroyMenuSet(World, menu) \ {menu}
           w_param == IF item.hSubMenu # NULL THEN p ELSE item.wID
           r == OnMenuSelect(World, w_param, menu)
           position == r.position
           target == r.target
       IN /\ "MFT_SEPARATOR" \notin item.fType
          /\ os[menu].hilite # p
          /\ os' = [h \in Handles |->
                      IF h = menu THEN [os[h] EXCEPT !.hilite = p]
                      ELSE IF h \in closing THEN [os[h] EXCEPT !.hilite = -1]
                      ELSE os[h]]
          /\ fault' = r.fault
          /\ last' = IF told
                     THEN [op |-> "OnMenuSelect", c |-> target, twice |-> FALSE,
                           whileOpen |-> FALSE, menu |-> menu, p |-> p,
                           called |-> r.called,
                           position |-> position, index |-> position]
                     ELSE NoOp
  /\ UNCHANGED <<modelVars, builds, ctl, sysMenu, open_native_menu_win_, stack, endMenu,
                 turn, msgs, runs>>

OsMenuSelect == MenuSelect(FALSE)

\* The menu is closing: WM_MENUSELECT arrives with a NULL menu handle and
\* whatever is in the low word of wParam.
OsMenuSelectClosing ==
  /\ Callable
  /\ stack # <<>>
  /\ ctl[Top.c].host_window_
  /\ \E w_param \in 0..MaxItems :
       LET r == OnMenuSelect(World, w_param, NULL)
       IN /\ fault' = r.fault
          /\ last' = [op |-> "OnMenuSelect of no menu", c |-> r.target, twice |-> FALSE,
                      whileOpen |-> FALSE, w_param |-> w_param, called |-> r.called]
  /\ UNCHANGED <<modelVars, builds, ctl, os, sysMenu, open_native_menu_win_, stack,
                 endMenu, turn, msgs, runs>>

OsMenuSelectTold == MenuSelect(TRUE)

\* The commands the user can choose: an enabled item of a shown menu that
\* is neither a separator nor a submenu.
Clickable(w, menu) ==
  {[menu |-> h, position |-> p] : h \in ShownMenus(w, menu), p \in 0..(MaxItems - 1)} \cap
  {x \in [menu : Handles, position : 0..(MaxItems - 1)] :
     /\ ValidPos(w, x.menu, x.position)
     /\ "MFT_SEPARATOR" \notin OsItem(w, x.menu, x.position).fType
     /\ "MFS_DISABLED" \notin OsItem(w, x.menu, x.position).fState
     /\ OsItem(w, x.menu, x.position).hSubMenu = NULL}

\* The loop of the innermost call ends: the user chose a command or
\* dismissed the menu (which takes a message the hook has seen), or
\* ::EndMenu was called.  The menus close, nothing stays highlighted, and
\* WM_EXITMENULOOP reaches the host window.
OsExitMenuLoop ==
  /\ Callable
  /\ stack # <<>>
  /\ Top.hooked \/ endMenu
  /\ ctl[Top.c].host_window_
  /\ \E cmd \in {NoCmd} \cup (IF Top.hooked THEN Clickable(World, Top.menu) ELSE {}) :
       /\ turn' = [active |-> TRUE, cmd |-> cmd, hadCmd |-> cmd # NoCmd]
       /\ msgs' = [ProcessExitMenuLoop(World, [msgs EXCEPT !.order = <<>>], Top.c)
                     EXCEPT !.exits = @ + 1]
  /\ endMenu' = FALSE
  /\ last' = NoOp
  /\ os' = [h \in Handles |->
              IF h \in ShownMenus(World, Top.menu) THEN [os[h] EXCEPT !.hilite = -1]
              ELSE os[h]]
  /\ UNCHANGED <<modelVars, builds, ctl, sysMenu, fault, open_native_menu_win_, stack, runs>>

\* WM_MENUCOMMAND follows WM_EXITMENULOOP in the same call stack.  A menu
\* tracked without MNS_NOTIFYBYPOS sends WM_COMMAND instead, which
\* ProcessWindowMessage does not handle.
OsMenuCommand ==
  /\ fault = "none"
  /\ turn.active
  /\ turn.cmd # NoCmd
  /\ LET intergoat == GetNativeMenuWinFromHMENU(World, turn.cmd.menu)
     IN IF "MNS_NOTIFYBYPOS" \notin os[Top.menu].style
        THEN /\ turn' = [turn EXCEPT !.cmd = NoCmd]
             /\ UNCHANGED <<msgs, fault>>
        ELSE IF intergoat = NULL
        THEN /\ fault' = "no NativeMenuWin for the HMENU in OnMenuCommand"
             /\ UNCHANGED <<msgs, turn>>
        ELSE /\ fault' = fault
             /\ msgs' = Told(msgs, ToModel("activated", ctl[intergoat].model_,
                                            turn.cmd.position))
             /\ turn' = [turn EXCEPT !.cmd = NoCmd]
  /\ last' = NoOp
  /\ UNCHANGED <<modelVars, builds, ctl, os, sysMenu, open_native_menu_win_, stack,
                 endMenu, runs>>

\* TrackPopupMenuEx returns and RunMenuAt finishes.
RunMenuAtReturn ==
  /\ fault = "none"
  /\ turn.active
  /\ turn.cmd = NoCmd
  /\ turn' = [turn EXCEPT !.active = FALSE]
  /\ open_native_menu_win_' = NULL
  /\ stack' = SubSeq(stack, 1, Len(stack) - 1)
  /\ last' = NoOp
  /\ UNCHANGED <<modelVars, builds, worldVars, endMenu, msgs, runs>>

\* The MessageLoop runs the task at the head of its queue: at top level, or
\* from inside a menu loop, which pumps the thread's messages.
RunTask ==
  /\ Callable
  /\ msgs.tasks # <<>>
  /\ IF ctl[Head(msgs.tasks).host].alive
     THEN /\ msgs' = [OnMenuClosed(World, msgs, Head(msgs.tasks).host)
                        EXCEPT !.tasks = Tail(@)]
          /\ UNCHANGED worldVars
     ELSE /\ fault' = "OnMenuClosed on a destroyed MenuHostWindow"
          /\ msgs' = [msgs EXCEPT !.tasks = Tail(@)]
          /\ UNCHANGED <<ctl, os, sysMenu>>
  /\ last' = NoOp
  /\ UNCHANGED <<modelVars, builds, open_native_menu_win_, stack, endMenu, turn, runs>>

\* CancelMenu ending only a loop that controller c itself is running.
CancelMenuOwnLoop(c) ==
  /\ Callable
  /\ ctl[c].alive
  /\ stack # <<>>
  /\ ~endMenu
  /\ endMenu' = (Top.c = c)
  /\ last' = Ran("CancelMenu", c)
  /\ UNCHANGED <<modelVars, builds, worldVars, open_native_menu_win_, stack, turn, msgs, runs>>

CancelMenu(c) ==
  /\ Callable
  /\ ctl[c].alive
  /\ stack # <<>>
  /\ ~endMenu
  /\ endMenu' = TRUE
  /\ last' = Ran("CancelMenu", c)
  /\ UNCHANGED <<modelVars, builds, worldVars, open_native_menu_win_, stack, turn, msgs, runs>>

\* RemoveMenuListener erasing every occurrence of the listener.
RemoveEvery(q, x) == SelectSeq(q, LAMBDA y : y # x)

\* RemoveMenuListener on the list q: the first occurrence of x is erased.
RemoveFirst(q, x) ==
  IF x \notin Range(q) THEN q
  ELSE LET k == CHOOSE i \in 1..Len(q) : q[i] = x /\ \A j \in 1..(i - 1) : q[j] # x
       IN SubSeq(q, 1, k - 1) \o SubSeq(q, k + 1, Len(q))

\* Listeners are added and removed between menu loops.
AddMenuListener(c) ==
  /\ Callable
  /\ stack = <<>>
  /\ ctl[c].alive
  /\ Len(ctl[c].listeners_) < MaxListeners
  /\ \E l \in Listeners : ctl' = [ctl EXCEPT ![c].listeners_ = Append(@, l)]
  /\ last' = NoOp
  /\ UNCHANGED <<modelVars, os, sysMenu, fault, loopVars>>

RemoveMenuListener(c) ==
  /\ Callable
  /\ stack = <<>>
  /\ ctl[c].alive
  /\ \E l \in Range(ctl[c].listeners_) :
       ctl' = [ctl EXCEPT ![c].listeners_ = RemoveFirst(@, l)]
  /\ last' = NoOp
  /\ UNCHANGED <<modelVars, os, sysMenu, fault, loopVars>>

\* The models a behaviour can start from: every root item list up to
\* MaxItems, with a submenu model of 1..MaxSubItems items when the root has
\* a submenu item (and the one-item model otherwise, where nothing reads it).
HasSubmenu(r) == \E k \in DOMAIN r : r[k] = TYPE_SUBMENU

InitModels ==
  { [m \in ModelIds |->
       [items |-> IF m = RootModel THEN [k \in DOMAIN p[1] |-> NewItem(p[1][k])]
                  ELSE [k \in DOMAIN p[2] |-> NewItem(p[2][k])],
        icons |-> FALSE,
        system |-> FALSE]] :
    p \in { q \in SeqsUpTo(RootTypes, MaxItems) \X (SeqsUpTo(SubTypes, MaxSubItems) \ {<<>>}) :
               HasSubmenu(q[1]) \/ q[2] = <<TYPE_CHECK>> } }

InitRunVars ==
  /\ last = NoOp
  /\ open_native_menu_win_ = NULL
  /\ stack = <<>>
  /\ endMenu = FALSE
  /\ turn = [active |-> FALSE, cmd |-> NoCmd, hadCmd |-> FALSE]
  /\ msgs = [tasks |-> <<>>, order |-> <<>>, exits |-> 0, closed |-> 0]
  /\ runs = 0
  /\ builds = 0

InitCommon ==
  /\ modelOps = 0
  /\ needOverrideFont = FALSE
  /\ about = AboutIdle(WindowsBuild)
  /\ \E u \in Indeterminate :
       ctl = [c \in CtlIds |-> IF c \in Roots THEN NativeMenuWin(RootModel, NULL, u)
                               ELSE FreeCtl]
  /\ os = [h \in Handles |-> FreeMenu]
  /\ sysMenu = NULL
  /\ fault = "none"
  /\ InitRunVars

Init ==
  /\ models \in InitModels
  /\ InitCommon

Next ==
  \/ RebuildAct(1)
  \/ UpdateStatesAct(1)
  \/ ModelSetLabel
  \/ ModelSetEnabled
  \/ ModelSetChecked
  \/ ModelSetIcons
  \/ ModelAppend
  \/ ModelRemoveLast

Spec == Init /\ [][Next]_vars

\* The menus a behaviour of the modal loop starts from: a flat menu, and a
\* menu with a submenu.
RunShapes ==
  { <<TYPE_COMMAND, TYPE_SEPARATOR>>, <<TYPE_SUBMENU, TYPE_RADIO>> }

InitRun ==
  /\ models \in { [m \in ModelIds |->
                     [items |-> IF m = RootModel THEN [k \in DOMAIN r |-> NewItem(r[k])]
                                ELSE <<NewItem(TYPE_CHECK)>>,
                      icons |-> FALSE,
                      system |-> FALSE]] : r \in RunShapes }
  /\ InitCommon

\* Only the first controller is ever built: RunMenuAt on the second gives
\* TrackPopupMenuEx a NULL handle.
NextRun ==
  \/ RebuildAct(1)
  \/ \E c \in Roots : RunMenuAt(c)
  \/ HookAct
  \/ OsMenuSelect
  \/ OsExitMenuLoop
  \/ OsMenuCommand
  \/ RunMenuAtReturn
  \/ RunTask
  \/ \E c \in Roots : CancelMenu(c)
  \/ AddMenuListener(1)
  \/ RemoveMenuListener(1)

SpecRun == InitRun /\ [][NextRun]_vars

\* WM_MENUCOMMAND and the return of TrackPopupMenuEx continue the call stack
\* WM_EXITMENULOOP arrived in, and the MessageLoop runs every task posted
\* to it.
SpecRunFair ==
  /\ SpecRun
  /\ WF_vars(OsMenuCommand)
  /\ WF_vars(RunMenuAtReturn)
  /\ WF_vars(RunTask)

(* ------------------------- the registry (C1) --------------------------- *)

\* The controllers c owns through its registry, c included.
RECURSIVE Owned(_)
Owned(c) ==
  {c} \cup UNION {Owned(ctl[c].items_[k].submenu) :
                    k \in {j \in 1..Len(ctl[c].items_) : ctl[c].items_[j].submenu # NULL}}

JustRebuilt(c) == last.op = "Rebuild" /\ last.c = c

RegistryLength(d) == Len(ctl[d].items_) = GetItemCount(ctl[d].model_)

\* C1, as claimed: after Rebuild() the registry is as long as the model and
\* every entry i, the separator placeholders included, has model_index = i.
C1_EveryEntryIndexed ==
  \A c \in Roots : JustRebuilt(c) =>
    \A d \in Owned(c) :
      /\ RegistryLength(d)
      /\ \A i \in 0..(Len(ctl[d].items_) - 1) : ctl[d].items_[i + 1].model_index = i

\* C1, amended: after Rebuild() the registry is as long as the model and
\* every entry i whose model item is not a separator has model_index = i;
\* AddSeparatorItemAt leaves a placeholder's model_index unset.
C1_RegistryTracksModel ==
  \A c \in Roots : JustRebuilt(c) =>
    \A d \in Owned(c) :
      /\ RegistryLength(d)
      /\ \A i \in 0..(Len(ctl[d].items_) - 1) :
           GetTypeAt(ctl[d].model_, i) # TYPE_SEPARATOR
             => ctl[d].items_[i + 1].model_index = i

\* A second Rebuild (the first one's menu is dead), after the model has
\* changed, of a model that mixes a separator with other items.
C1_Witness ==
  /\ JustRebuilt(1)
  /\ modelOps > 0
  /\ \E h \in Handles : os[h].st = "dead"
  /\ \E i, j \in 0..(GetItemCount(RootModel) - 1) :
       /\ GetTypeAt(RootModel, i) = TYPE_SEPARATOR
       /\ GetTypeAt(RootModel, j) # TYPE_SEPARATOR

(* ------------------------ UpdateStates (C9, C10) ----------------------- *)

JustUpdated(c) == last.op = "UpdateStates" /\ last.c = c /\ fault = "none"

\* C9: an UpdateStates() that follows an UpdateStates() on the same
\* controller, with no model change or other operation in between, leaves
\* every OS menu (state and label of every item, submenus included) as the
\* first call left it.
C9_UpdateStatesIdempotent ==
  [][(JustUpdated(1) /\ JustUpdated(1)' /\ last'.twice) => os' = os]_vars

\* UpdateStates() has run twice in a row on a built menu that has a
\* disabled or checked item.
C9_Witness ==
  /\ JustUpdated(1)
  /\ last.twice
  /\ ctl[1].menu_ # NULL
  /\ \E k \in 1..Len(os[ctl[1].menu_].items) : os[ctl[1].menu_].items[k].fState # {}

\* The label the code gives the OS for model item i of m.
FormattedLabel(m, i) ==
  IF GetTypeAt(m, i) # TYPE_SUBMENU /\ GetAcceleratorAt(m, i) # ""
  THEN GetLabelAt(m, i) \o <<"\t", GetAcceleratorAt(m, i)>>
  ELSE GetLabelAt(m, i)

\* The OS item of registry entry i of controller d.
Shown(d, i) == os[ctl[d].menu_].items[i + ctl[d].first_item_index_ + 1]

StateMatches(d, i) ==
  /\ ("MFS_DISABLED" \notin Shown(d, i).fState) = IsEnabledAt(ctl[d].model_, i)
  /\ ("MFS_CHECKED" \in Shown(d, i).fState) = IsItemCheckedAt(ctl[d].model_, i)

\* C10, as claimed: after UpdateStates() every non-separator item shows the
\* model's enabled and checked state, and every dynamic one the model's
\* current label, through every owned submenu.
C10_LabelIsModelLabel ==
  \A c \in Roots : JustUpdated(c) =>
    \A d \in Owned(c) : \A i \in 0..(Len(ctl[d].items_) - 1) :
      "MFT_SEPARATOR" \notin Shown(d, i).fType =>
        /\ StateMatches(d, i)
        /\ IsItemDynamicAt(ctl[d].model_, i)
             => Shown(d, i).dwTypeData = GetLabelAt(ctl[d].model_, i)

\* C10, amended: ... and every dynamic one the model's current label,
\* followed by a tab and the accelerator's text when the item is not a
\* submenu and has an accelerator.  Separators keep the state they had.
C10_StatesPushed ==
  \A c \in Roots : JustUpdated(c) =>
    \A d \in Owned(c) : \A i \in 0..(Len(ctl[d].items_) - 1) :
      IF "MFT_SEPARATOR" \notin Shown(d, i).fType
      THEN /\ StateMatches(d, i)
           /\ IsItemDynamicAt(ctl[d].model_, i)
                => Shown(d, i).dwTypeData = FormattedLabel(ctl[d].model_, i)
      ELSE Shown(d, i).fState = {}

\* UpdateStates() has pushed a change the model made after the build, into
\* a menu that has a separator and an owned submenu.
C10_Witness ==
  /\ JustUpdated(1)
  /\ modelOps > 0
  /\ Cardinality(Owned(1)) > 1
  /\ \E d \in Owned(1) : \E i \in 0..(Len(ctl[d].items_) - 1) :
       \/ Shown(d, i).fState # {}
       \/ Shown(d, i).dwTypeData # <<>> /\ Shown(d, i).dwTypeData[1] = "B"
  /\ \E d \in Owned(1) : \E i \in 0..(Len(ctl[d].items_) - 1) :
       "MFT_SEPARATOR" \in Shown(d, i).fType

(* --------------------- claims about the modal loop --------------------- *)

Kinds(q) == {q[k].kind : k \in 1..Len(q)}

\* C2: when WM_EXITMENULOOP is followed in the same call stack by
\* WM_MENUCOMMAND, the model is told the command was activated before it is
\* told the menu closed, and nothing is told "closed" while the OS is still
\* delivering the end of the loop.
C2_ActivatedBeforeClosed ==
  /\ turn.active => "closed" \notin Kinds(msgs.order)
  /\ (turn.hadCmd /\ "closed" \in Kinds(msgs.order)) => msgs.order[1].kind = "activated"

C2_Witness ==
  /\ turn.hadCmd
  /\ ~turn.active
  /\ Len(msgs.order) = 2
  /\ msgs.order[1].kind = "activated"
  /\ msgs.order[2].kind = "closed"

\* C3: a RunMenuAt call made while open_native_menu_win_ is set is refused:
\* the process asserts, no second loop is entered and the slot keeps its
\* value.
C3_RunAtWhileOpenRejected ==
  [][(open_native_menu_win_ # NULL /\ runs' = runs + 1)
       => (/\ fault' # "none"
           /\ stack' = stack
           /\ open_native_menu_win_' = open_native_menu_win_)]_vars

\* C4: Rebuild called on a controller whose RunMenuAt is in progress aborts,
\* and the menu handle the loop tracks is still the controller's menu and
\* still a menu.
C4_RebuildWhileOpenRefused ==
  (last.op = "Rebuild" /\ last.whileOpen)
    => /\ fault # "none"
       /\ \A k \in 1..Len(stack) :
            stack[k].c = last.c
              => ctl[last.c].menu_ = stack[k].menu /\ IsMenu(World, stack[k].menu)

\* C5: open_native_menu_win_ is the controller of the innermost RunMenuAt in
\* progress, and NULL when none is in progress.
C5_SlotHoldsRunningController ==
  IF stack = <<>> THEN open_native_menu_win_ = NULL
  ELSE open_native_menu_win_ = Top.c

\* TrackPopupMenuEx is about to return to the innermost RunMenuAt call.
Returning == turn.active /\ turn.cmd = NoCmd

\* The OnMenuOpened calls of one RunMenuAt call.
OpenedOncePerHookedRun(f) ==
  f.notified = IF f.hooked THEN f.atHook ELSE <<>>

\* C6 (as claimed): when RunMenuAt returns, each listener on the list at the
\* call has been told OnMenuOpened once for each time it is on it.
C6_OpenedOncePerRun ==
  Returning => \A l \in Listeners : Count(l, Top.notified) = Count(l, Top.atCall)

\* C6 (amended): OnMenuOpened is sent from the first run of the message
\* hook during a RunMenuAt call, to the listener list as it is then, and
\* from no later run; a call whose loop the hook never ran in sends none.
C6_OpenedOnFirstHook ==
  \A k \in 1..Len(stack) : OpenedOncePerHookedRun(stack[k])

C6_Witness ==
  /\ Returning
  /\ Top.hooks = 2
  /\ Top.atHook # <<>>
  /\ Top.notified = Top.atHook

C8_ActionResetPerRun ==
  (Returning /\ ~Top.nav) => ctl[Top.c].menu_action_ = MENU_ACTION_NONE

C8_Witness ==
  /\ Returning
  /\ Top.entryAction # MENU_ACTION_NONE
  /\ ~Top.nav
  /\ ctl[Top.c].menu_action_ = MENU_ACTION_NONE

(* ------------------- single item mutations: labels and states ---------- *)

\* The menus the item mutations are applied to: every item kind, with and
\* without an accelerator.
ItemShapes ==
  { <<TYPE_COMMAND, TYPE_SUBMENU>>, <<TYPE_CHECK, TYPE_SEPARATOR>>,
    <<TYPE_SUBMENU, TYPE_RADIO>> }

\* The record of a mutation of one item: the operation, the model index and
\* the text it was given.
RanOnItem(op, c, i, text) ==
  [op |-> op, c |-> c, twice |-> FALSE, whileOpen |-> InLoop(c),
   index |-> i, label |-> text]

\* SetMenuItemLabel(model_index + first_item_index_, model_index, text), as
\* UpdateStates calls it for one item.
SetMenuItemLabelAct(c) ==
  \E i \in 0..(Len(ctl[c].items_) - 1) : \E text \in Labels :
    /\ Callable
    /\ ctl[c].alive
    /\ ctl[c].menu_ # NULL
    /\ InRange(ctl[c].model_, i)
    /\ SetWorld(SetMenuItemLabel(World, c, i + ctl[c].first_item_index_, i, text))
    /\ last' = RanOnItem("SetMenuItemLabel", c, i, text)
    /\ UNCHANGED <<modelVars, loopVars>>

\* SetMenuItemState(model_index + first_item_index_, enabled, checked, false),
\* as UpdateStates calls it for one item.
SetMenuItemStateAct(c) ==
  \E i \in 0..(Len(ctl[c].items_) - 1) : \E enabled \in BOOLEAN : \E checked \in BOOLEAN :
    /\ Callable
    /\ ctl[c].alive
    /\ ctl[c].menu_ # NULL
    /\ SetWorld(SetMenuItemState(World, c, i + ctl[c].first_item_index_,
                                 enabled, checked, FALSE))
    /\ last' = RanOnItem("SetMenuItemState", c, i, <<>>)
    /\ UNCHANGED <<modelVars, loopVars>>

InitItems ==
  /\ models \in { [m \in ModelIds |->
                     [items |-> IF m = RootModel THEN [k \in DOMAIN r |-> NewItem(r[k])]
                                ELSE <<NewItem(TYPE_CHECK)>>,
                      icons |-> FALSE,
                      system |-> FALSE]] : r \in ItemShapes }
  /\ InitCommon

NextItems ==
  \/ RebuildAct(1)
  \/ SetMenuItemLabelAct(1)
  \/ SetMenuItemStateAct(1)

SpecItems == InitItems /\ [][NextItems]_vars

(* ------------------------------ C11 ------------------------------------ *)

\* The text the controller keeps for item i of model m when it is given
\* `text`: the accelerator of a non-submenu item is appended after a tab.
Formatted(m, i, text) ==
  IF GetTypeAt(m, i) # TYPE_SUBMENU /\ GetAcceleratorAt(m, i) # ""
  THEN text \o <<"\t", GetAcceleratorAt(m, i)>>
  ELSE text

LabelsOf(d) == [k \in DOMAIN d.items_ |-> d.items_[k].label]

\* A step setting the label of item i of controller 1 leaves in registry
\* entry i the text, formatted or bare, and every mutation of one item leaves
\* the labels of the other entries as they were.
LabelStep(formatted) ==
  LET i == last'.index
  IN /\ last'.op = "SetMenuItemLabel" =>
          /\ GetTypeAt(RootModel, i) # TYPE_SEPARATOR =>
                ctl'[1].items_[i + 1].label =
                  IF formatted THEN Formatted(RootModel, i, last'.label)
                  ELSE last'.label
          /\ \A k \in DOMAIN ctl[1].items_ :
                k # i + 1 => ctl'[1].items_[k].label = ctl[1].items_[k].label
     /\ last'.op = "SetMenuItemState" => LabelsOf(ctl'[1]) = LabelsOf(ctl[1])

\* C11 as stated: after SetMenuItemLabel(i, text) on a non-separator item,
\* registry entry i holds exactly `text`, and mutations of other items do not
\* change it.
C11_LabelIsTextSet == [][LabelStep(FALSE)]_vars

\* C11, amended: after SetMenuItemLabel(i, text) on a non-separator item,
\* registry entry i holds `text` followed, for a non-submenu item with an
\* accelerator, by a tab and the accelerator text; label and state mutations
\* of other items do not change it.
C11_LabelIsFormattedText == [][LabelStep(TRUE)]_vars

\* Item 0 was given the label "B", and then the state of item 1 was set.
C11_Witness ==
  /\ last.op = "SetMenuItemState"
  /\ last.index = 1
  /\ Len(ctl[1].items_) = 2
  /\ GetTypeAt(RootModel, 0) = TYPE_CHECK
  /\ ctl[1].items_[1].label = Formatted(RootModel, 0, <<"B">>)

(* --------------- resolving a WM_MENUSELECT value to a position --------- *)

MaxId == 2

\* The command ids an application gives its items, and the values Windows
\* passes in WM_MENUSELECT: a command id or a position.
CommandIds == 0..MaxId

\* A menu item whose command id the application chose.
ItemWithId(type, id) == [NewItem(type) EXCEPT !.cmd = id]

ResolveItems ==
  {ItemWithId(TYPE_COMMAND, id) : id \in CommandIds}
    \cup {NewItem(TYPE_SEPARATOR), NewItem(TYPE_SUBMENU)}

\* OnMenuSelect's call of GetMenuItemIndexFromWPARAM on the menu of
\* controller c, with the value it returned.
ResolveAct(c) ==
  \E w_param \in CommandIds :
    /\ Callable
    /\ ctl[c].alive
    /\ IsMenu(World, ctl[c].menu_)
    /\ last' = [op |-> "GetMenuItemIndexFromWPARAM", c |-> c, twice |-> FALSE,
                whileOpen |-> InLoop(c), w_param |-> w_param,
                position |-> GetMenuItemIndexFromWPARAM(World, ctl[c].menu_, w_param)]
    /\ UNCHANGED <<worldVars, modelVars, loopVars>>

InitResolve ==
  /\ models \in { [m \in ModelIds |->
                     [items |-> IF m = RootModel THEN r ELSE <<NewItem(TYPE_CHECK)>>,
                      icons |-> FALSE,
                      system |-> FALSE]] : r \in SeqsUpTo(ResolveItems, MaxItems) }
  /\ InitCommon

NextResolve ==
  \/ RebuildAct(1)
  \/ ResolveAct(1)

SpecResolve == InitResolve /\ [][NextResolve]_vars

(* ------------------------------ C12 ------------------------------------ *)

Resolved == last.op = "GetMenuItemIndexFromWPARAM"

\* Item k of the root model is a command the application gave the id.
IsCommandWithId(k, id) ==
  /\ k \in 0..(GetItemCount(RootModel) - 1)
  /\ GetTypeAt(RootModel, k) \notin {TYPE_SEPARATOR, TYPE_SUBMENU}
  /\ GetCommandIdAt(RootModel, k) = id

\* C12: for a value equal to the command id of item k the resolver returns
\* k; for a raw position v in [0, itemCount) that is the id of no item it
\* returns v.
C12_ResolvesToItem ==
  Resolved =>
    /\ \A k \in 0..(GetItemCount(RootModel) - 1) :
          IsCommandWithId(k, last.w_param) => last.position = k
    /\ (/\ last.w_param < GetMenuItemCount(World, ctl[1].menu_)
        /\ \A i \in 0..(GetMenuItemCount(World, ctl[1].menu_) - 1) :
              OsItem(World, ctl[1].menu_, i).wID # last.w_param)
         => last.position = last.w_param

\* The positions of controller 1's menu whose OS identifier is id.
Hits(id) ==
  {i \in 0..(GetMenuItemCount(World, ctl[1].menu_) - 1) :
     OsItem(World, ctl[1].menu_, i).wID = id}

\* C12, amended: the resolver returns the first position whose OS identifier
\* equals the value (the identifier of a command is its command id, that of
\* a separator or a submenu item is 0), and the value itself when no
\* position has that identifier.
C12_ResolvesToFirstMatch ==
  Resolved =>
    /\ Hits(last.w_param) # {} =>
          /\ last.position \in Hits(last.w_param)
          /\ \A j \in Hits(last.w_param) : last.position <= j
    /\ Hits(last.w_param) = {} => last.position = last.w_param

\* The id of the command at position 1 was resolved to position 1, past a
\* command with another id.
C12_Witness ==
  /\ Resolved
  /\ GetItemCount(RootModel) = 2
  /\ GetTypeAt(RootModel, 0) = TYPE_COMMAND
  /\ IsCommandWithId(1, last.w_param)
  /\ last.position = 1

(* ------------------------------ C13 ------------------------------------ *)

\* The registry entries of controller d that own a child controller.
WithChild(d) == {k \in 1..Len(ctl[d].items_) : ctl[d].items_[k].submenu # NULL}

\* C13: after Rebuild(), a registry entry owns a child controller exactly
\* when its model item is a submenu, that child is a live controller of its
\* own built on the model's submenu model at the index, and the entry of a
\* separator is an empty placeholder: no label and no child.
C13_ChildIffSubmenu ==
  \A c \in Roots : JustRebuilt(c) =>
    \A d \in Owned(c) :
      /\ \A i \in 0..(Len(ctl[d].items_) - 1) :
           LET e == ctl[d].items_[i + 1]
               type == GetTypeAt(ctl[d].model_, i)
           IN /\ e.submenu # NULL <=> type = TYPE_SUBMENU
              /\ e.submenu # NULL =>
                   /\ ctl[e.submenu].alive
                   /\ ctl[e.submenu].model_ = GetSubmenuModelAt(ctl[d].model_, i)
              /\ type = TYPE_SEPARATOR => e.label = <<>> /\ e.submenu = NULL
      /\ \A j, k \in WithChild(d) :
           j # k => ctl[d].items_[j].submenu # ctl[d].items_[k].submenu

\* A menu of a separator and a submenu has just been built.
C13_Witness ==
  /\ JustRebuilt(1)
  /\ GetItemCount(RootModel) = 2
  /\ GetTypeAt(RootModel, 0) = TYPE_SEPARATOR
  /\ GetTypeAt(RootModel, 1) = TYPE_SUBMENU
  /\ WithChild(1) = {2}

(* -------------- system menus and the end of a controller --------------- *)

\* The window whose system menu a controller can be constructed on.
SystemWindow == 1

RECURSIVE NativeMenuWinDtor(_, _)
RECURSIVE STLDeleteContainerPointers(_, _, _)

\* delete of a Menu2: its wrapper, the child controller, is destroyed.
Menu2Delete(w, id) ==
  IF ~w.ctl[id].alive THEN [w EXCEPT !.fault = "Menu2 deleted twice"]
  ELSE NativeMenuWinDtor(w, id)

\* STLDeleteContainerPointers(items_.begin(), items_.end()), from entry k
\* on: deleting an ItemData deletes the Menu2 its scoped_ptr holds.
STLDeleteContainerPointers(w, c, k) ==
  IF w.fault # "none" \/ k > Len(w.ctl[c].items_) THEN w
  ELSE LET submenu == w.ctl[c].items_[k].submenu
       IN STLDeleteContainerPointers(IF submenu # NULL THEN Menu2Delete(w, submenu) ELSE w,
                                     c, k + 1)

\* ~NativeMenuWin without DestroyMenu(menu_).
NativeMenuWinDtorKeepsMenu(w, c) ==
  LET w1 == STLDeleteContainerPointers(w, c, 1)
  IN [w1 EXCEPT !.ctl[c] = FreeCtl]

\* ~NativeMenuWin.
NativeMenuWinDtor(w, c) ==
  LET w1 == STLDeleteContainerPointers(w, c, 1)
      w2 == DestroyMenu(w1, w1.ctl[c].menu_)
  IN [w2 EXCEPT !.ctl[c] = FreeCtl]

\* The application deletes a root controller that is not running a menu.
\* The host window goes with it, and with the host window the tasks its
\* method factory has posted.
\* ~ScopedRunnableMethodFactory (base/task.h): the tasks the factory of host
\* window `host` made are revoked and will not run.
RevokeAll(q, host) ==
  [q EXCEPT !.tasks = SelectSeq(@, LAMBDA t : t.host # host)]

\* ~MenuHostWindow that leaves the posted OnMenuClosed tasks runnable.
MenuHostWindowDtorKeepsTasks(q, host) == q

\* ~MenuHostWindow, run when the controller's scoped_ptr host_window_ goes:
\* DestroyWindow and the destruction of the member method_factory_.
MenuHostWindowDtor(q, host) == RevokeAll(q, host)

DestroyAct(c) ==
  /\ Callable
  /\ c \in Roots
  /\ ctl[c].alive
  /\ ~InLoop(c)
  /\ SetWorld(NativeMenuWinDtor(World, c))
  /\ msgs' = MenuHostWindowDtor(msgs, c)
  /\ last' = Ran("~NativeMenuWin", c)
  /\ UNCHANGED <<modelVars, open_native_menu_win_, stack, endMenu, turn, runs, builds>>

\* The menus of the behaviours with a system menu.
SysShapes ==
  { <<TYPE_COMMAND>>, <<TYPE_CHECK, TYPE_SEPARATOR>>, <<TYPE_SUBMENU, TYPE_COMMAND>> }

\* One controller, constructed on a window's system menu or as a popup, on
\* a SystemMenuModel or a plain model, with or without icons and with or
\* without a font override.
InitSys ==
  /\ models \in { [m \in ModelIds |->
                     [items |-> IF m = RootModel THEN [k \in DOMAIN r |-> NewItem(r[k])]
                                ELSE <<NewItem(TYPE_CHECK)>>,
                      icons |-> m = RootModel /\ icons,
                      system |-> m = RootModel /\ system]] :
                  r \in SysShapes, icons \in BOOLEAN, system \in BOOLEAN }
  /\ modelOps = 0
  /\ needOverrideFont \in BOOLEAN
  /\ about = AboutIdle(WindowsBuild)
  /\ \E u \in Indeterminate : \E hwnd \in {NULL, SystemWindow} :
       ctl = [c \in CtlIds |-> IF c = 1 THEN NativeMenuWin(RootModel, hwnd, u)
                               ELSE FreeCtl]
  /\ os = [h \in Handles |-> FreeMenu]
  /\ sysMenu = NULL
  /\ fault = "none"
  /\ InitRunVars

NextSys ==
  \/ RebuildAct(1)
  \/ UpdateStatesAct(1)
  \/ DestroyAct(1)
  \/ ModelSetIcons
  \/ ModelAppend
  \/ ModelRemoveLast

SpecSys == InitSys /\ [][NextSys]_vars

(* ------------------------------ C14 ------------------------------------ *)

\* C14: a controller wrapping a window's system menu never destroys it:
\* whatever the controller does, Rebuild and its own destruction included,
\* the handle the window has for its system menu is a menu.
C14_SystemMenuNeverDestroyed ==
  sysMenu # NULL => IsMenu(World, sysMenu)

(* ------------------------------ C15 ------------------------------------ *)

\* The controllers that exist and that no root controller reaches through
\* the registries.
Unreachable ==
  {d \in CtlIds : ctl[d].alive} \ UNION {Owned(c) : c \in {r \in Roots : ctl[r].alive}}

\* C15: after Rebuild() returns no child controller built by an earlier
\* Rebuild() is still allocated while unreachable from the controller.
C15_RebuildFreesPrevious ==
  \A c \in Roots : JustRebuilt(c) => Unreachable = {}

(* ------------------------------ C18 ------------------------------------ *)

\* The menus of the controllers in S.
MenusOf(S) == {ctl[d].menu_ : d \in S} \ {NULL}

\* C18: destroying a controller destroys it and every controller it owns
\* through its registry, at any depth, with their registries, and releases
\* the OS menu of each; nothing is deleted twice, and no other controller
\* is touched.
C18_DestroyReleasesAll ==
  [][last'.op = "~NativeMenuWin" =>
       /\ fault' = "none"
       /\ \A d \in Owned(last'.c) : ctl'[d] = FreeCtl
       /\ \A h \in MenusOf(Owned(last'.c)) : os'[h].st # "live"
       /\ \A d \in CtlIds \ Owned(last'.c) : ctl'[d] = ctl[d]]_vars

\* A controller with a submenu has been destroyed: no controller is left.
C18_Witness ==
  /\ last.op = "~NativeMenuWin"
  /\ builds = 0
  /\ GetItemCount(RootModel) > 0
  /\ GetTypeAt(RootModel, 0) = TYPE_SUBMENU
  /\ \E h \in Handles : os[h].st = "dead"
  /\ \A d \in CtlIds : ~ctl[d].alive

(* ------------------------------ C19 ------------------------------------ *)

\* Controller c wraps the system menu of a window.
WrapsSystemMenu(c) == IsWindow(ctl[c].system_menu_for_)

\* The OS item at menu position p of controller c shows model item i: the
\* item data AddMenuItemAt attached names the controller and the index, and
\* a separator of the model is a separator item.
ShowsModelItem(c, p, i) ==
  LET item == OsItem(World, ctl[c].menu_, p)
  IN IF GetTypeAt(ctl[c].model_, i) = TYPE_SEPARATOR
     THEN "MFT_SEPARATOR" \in item.fType
     ELSE item.dwItemData = [ctl |-> c, model_index |-> i]

C20_PopupOffsetZero ==
  (JustRebuilt(1) /\ ~WrapsSystemMenu(1)) =>
    /\ ctl[1].first_item_index_ = 0
    /\ GetMenuItemCount(World, ctl[1].menu_) = GetItemCount(RootModel)
    /\ \A i \in 0..(GetItemCount(RootModel) - 1) : ShowsModelItem(1, i, i)

\* A popup controller on a SystemMenuModel has just been built.
C20_Witness ==
  /\ JustRebuilt(1)
  /\ ~WrapsSystemMenu(1)
  /\ models[RootModel].system
  /\ GetItemCount(RootModel) = 2
  /\ ctl[1].first_item_index_ = 0

(* ------------------------- owner-drawn items --------------------------- *)

\* One controller on a menu of a command and a submenu, constructed with or
\* without a font override, on a model with or without icons, as a popup or
\* on a system menu.
InitDraw ==
  /\ models \in { [m \in ModelIds |->
                     [items |-> IF m = RootModel
                                THEN <<NewItem(TYPE_COMMAND), NewItem(TYPE_SUBMENU)>>
                                ELSE <<NewItem(TYPE_CHECK)>>,
                      icons |-> m = RootModel /\ icons,
                      system |-> FALSE]] : icons \in BOOLEAN }
  /\ modelOps = 0
  /\ needOverrideFont \in BOOLEAN
  /\ about = AboutIdle(WindowsBuild)
  /\ \E u \in Indeterminate : \E hwnd \in {NULL, SystemWindow} :
       ctl = [c \in CtlIds |-> IF c = 1 THEN NativeMenuWin(RootModel, hwnd, u)
                               ELSE FreeCtl]
  /\ os = [h \in Handles |-> FreeMenu]
  /\ sysMenu = NULL
  /\ fault = "none"
  /\ InitRunVars

NextDraw ==
  \/ RebuildAct(1)
  \/ UpdateStatesAct(1)
  \/ ModelSetIcons
  \/ RunMenuAt(1)
  \/ HookAct
  \/ OsExitMenuLoop
  \/ OsMenuCommand
  \/ RunMenuAtReturn
  \/ RunTask

SpecDraw == InitDraw /\ [][NextDraw]_vars

(* ------------------------------ C16 ------------------------------------ *)

\* C16: the owner-draw flag of a controller never goes back from true to
\* false while the controller exists, whatever runs: Rebuild, UpdateStates,
\* RunMenuAt, or the model dropping its icons.
C16_OwnerDrawSticky ==
  [][\A c \in CtlIds :
       (ctl[c].alive /\ ctl'[c].alive /\ ctl[c].owner_draw_) => ctl'[c].owner_draw_]_vars

\* The flag came from the model's icons at an earlier Rebuild, the model has
\* since dropped its icons, and the controller has been rebuilt.
C16_Witness ==
  /\ JustRebuilt(1)
  /\ ~needOverrideFont
  /\ ~HasIcons(RootModel)
  /\ ctl[1].owner_draw_

(* ------------------------------ C17 ------------------------------------ *)

\* Menu loops and calls of CancelMenu, with one menu open at a time and no
\* Rebuild of an open menu.  ::EndMenu is honoured: the loop it was called
\* for ends, the command the user may have chosen at the same moment is
\* delivered, and TrackPopupMenuEx returns.
NextCancel ==
  \/ stack = <<>> /\ RebuildAct(1)
  \/ stack = <<>> /\ \E c \in Roots : RunMenuAt(c)
  \/ HookAct
  \/ OsExitMenuLoop
  \/ OsMenuCommand
  \/ RunMenuAtReturn
  \/ \E c \in Roots : CancelMenu(c)

SpecRunCancel ==
  /\ InitRun
  /\ [][NextCancel]_vars
  /\ WF_vars(endMenu /\ OsExitMenuLoop)
  /\ WF_vars(OsMenuCommand)
  /\ WF_vars(RunMenuAtReturn)

\* A CancelMenu step asks for the end of the menu loop and changes neither
\* the slot, nor any controller (its navigation action and registry
\* included), nor any menu, nor the calls in progress.
CancelStep ==
  last'.op = "CancelMenu" =>
    /\ endMenu'
    /\ open_native_menu_win_' = open_native_menu_win_
    /\ ctl' = ctl
    /\ os' = os
    /\ stack' = stack

\* RunMenuAt clears the slot when its TrackPopupMenuEx returns.
ReturnStep == Len(stack') < Len(stack) => open_native_menu_win_' = NULL

\* C17: CancelMenu on any controller asks for the end of whichever menu loop
\* is running, also one of another controller, and itself changes neither
\* the slot, the navigation action nor the registry; the loop then ends and
\* its RunMenuAt returns, with the slot cleared.
C17_CancelEndsActiveLoop ==
  /\ [][CancelStep /\ ReturnStep]_vars
  /\ (endMenu /\ stack # <<>>) ~> (stack = <<>> /\ open_native_menu_win_ = NULL)

\* Controller 2, which runs no menu, has cancelled the menu controller 1 is
\* running.
C17_Witness ==
  /\ last.op = "CancelMenu"
  /\ last.c = 2
  /\ Len(stack) = 1
  /\ Top.c = 1
  /\ Top.hooked
  /\ endMenu

(* ------------------ dispatch of the menu notifications ----------------- *)

\* The menus of the dispatch behaviours: a submenu at position 1 after a
\* command whose id is 1, after a separator, and a submenu at position 0.
DispatchShapes ==
  { <<TYPE_COMMAND, TYPE_SUBMENU>>, <<TYPE_SEPARATOR, TYPE_SUBMENU>>,
    <<TYPE_SUBMENU, TYPE_RADIO>> }

\* One controller: a popup on a plain model, or the wrapper of a window's
\* system menu on a SystemMenuModel.
InitDispatch ==
  /\ models \in { [m \in ModelIds |->
                     [items |-> IF m = RootModel THEN [k \in DOMAIN r |-> NewItem(r[k])]
                                ELSE <<NewItem(TYPE_CHECK)>>,
                      icons |-> FALSE,
                      system |-> m = RootModel /\ system]] :
                  r \in DispatchShapes, system \in BOOLEAN }
  /\ modelOps = 0
  /\ needOverrideFont = FALSE
  /\ about = AboutIdle(WindowsBuild)
  /\ \E u \in Indeterminate :
       ctl = [c \in CtlIds |->
                IF c = 1
                THEN NativeMenuWin(RootModel,
                                   IF models[RootModel].system THEN SystemWindow ELSE NULL, u)
                ELSE FreeCtl]
  /\ os = [h \in Handles |-> FreeMenu]
  /\ sysMenu = NULL
  /\ fault = "none"
  /\ InitRunVars

\* One menu open at a time, and no Rebuild of an open menu.
NextDispatch ==
  \/ stack = <<>> /\ RebuildAct(1)
  \/ stack = <<>> /\ RunMenuAt(1)
  \/ HookAct
  \/ OsMenuSelectTold
  \/ OsMenuSelectClosing
  \/ OsExitMenuLoop
  \/ OsMenuCommand
  \/ RunMenuAtReturn
  \/ RunTask

SpecDispatch == InitDispatch /\ [][NextDispatch]_vars

\* The controller whose menu_ is the live menu h.
OwnerOf(h) == CHOOSE d \in CtlIds : ctl[d].alive /\ ctl[d].menu_ = h

Selected == last.op = "OnMenuSelect"

\* WM_MENUCOMMAND is about to be delivered for turn.cmd.
CommandPending ==
  /\ fault = "none"
  /\ turn.active
  /\ turn.cmd # NoCmd
  /\ "MNS_NOTIFYBYPOS" \in os[Top.menu].style

(* ------------------------------ C21 ------------------------------------ *)

\* C21: the index HighlightChangedTo and ActivatedAt are given is the
\* menu position of the item less the first-item offset of the controller
\* that owns the menu, whatever the offset.
C21_ModelIndexPassed ==
  /\ [](Selected =>
          /\ last.called
          /\ last.index = last.position - ctl[OwnerOf(last.menu)].first_item_index_)
  /\ [][CommandPending =>
          msgs'.order =
            <<ToModel("activated", ctl[OwnerOf(turn.cmd.menu)].model_,
                      turn.cmd.position
                        - ctl[OwnerOf(turn.cmd.menu)].first_item_index_)>>]_vars

(* ------------------------------ C22 ------------------------------------ *)

\* C22: a WM_MENUSELECT or WM_MENUCOMMAND that carries menu handle h is
\* resolved to a live controller, the one whose menu is h, for every menu a
\* controller has built, a wrapped system menu included, and it is that
\* controller's model that is called.
C22_DispatchToOwner ==
  /\ [](Selected /\ last.position >= 0 =>
          /\ last.called
          /\ ctl[last.c].alive
          /\ last.c = OwnerOf(last.menu))
  /\ [][CommandPending =>
          /\ fault' = "none"
          /\ Len(msgs'.order) = 1
          /\ msgs'.order[1].model = ctl[OwnerOf(turn.cmd.menu)].model_]_vars

\* The part of C22 that holds: in a popup menu and its submenus every
\* notification reaches the model of the controller that owns the menu.
C22_PopupDispatchToOwner ==
  /\ [](Selected /\ ~WrapsSystemMenu(1) =>
          /\ last.called
          /\ ctl[last.c].alive
          /\ last.c = OwnerOf(last.menu))
  /\ [][CommandPending =>
          /\ fault' = "none"
          /\ Len(msgs'.order) = 1
          /\ msgs'.order[1].model = ctl[OwnerOf(turn.cmd.menu)].model_]_vars

(* ------------------------------ C23 ------------------------------------ *)

\* The item at position p of the menu opens a submenu.
IsSubmenuItem(menu, p) == OsItem(World, menu, p).hSubMenu # NULL

\* C23: when the submenu item at position p is highlighted, the model is
\* told HighlightChangedTo(p), whatever else the menu holds.
C23_SubmenuHighlightKept ==
  (Selected /\ ~WrapsSystemMenu(1) /\ IsSubmenuItem(last.menu, last.p)) =>
    last.called /\ last.index = last.p

(* ---------------------- keyboard navigation: C24 ----------------------- *)

\* Menu loops one at a time, with the highlight moving and keys arriving.
NextNav ==
  \/ stack = <<>> /\ RebuildAct(1)
  \/ stack = <<>> /\ RunMenuAt(1)
  \/ HookActTold
  \/ OsMenuSelect
  \/ OsExitMenuLoop
  \/ OsMenuCommand
  \/ RunMenuAtReturn
  \/ RunTask

SpecNav == InitRun /\ [][NextNav]_vars

Hooked == last.op = "MenuMessageHook"

\* The highlighted item of the menu, or -1.
Highlighted(menu) == IF IsMenu(World, menu) THEN os[menu].hilite ELSE -1

\* The highlighted item of controller c's menu opens a submenu.
OnSubmenuItem(c) ==
  /\ Highlighted(ctl[c].menu_) # -1
  /\ OsItem(World, ctl[c].menu_, Highlighted(ctl[c].menu_)).hSubMenu # NULL

\* An item inside the submenu that c's highlighted item opens is highlighted.
InsideSubmenu(c) ==
  /\ OnSubmenuItem(c)
  /\ Highlighted(OsItem(World, ctl[c].menu_, Highlighted(ctl[c].menu_)).hSubMenu) # -1

\* The navigation action a key asks for, given where the highlight is.
Resolves(c, msg) ==
  IF msg.message = "WM_KEYDOWN" /\ msg.wParam = "VK_LEFT" /\ ~InsideSubmenu(c)
  THEN MENU_ACTION_PREVIOUS
  ELSE IF /\ msg.message = "WM_KEYDOWN" /\ msg.wParam = "VK_RIGHT"
          /\ ~OnSubmenuItem(c) /\ ~InsideSubmenu(c)
  THEN MENU_ACTION_NEXT
  ELSE MENU_ACTION_NONE

\* C24: in the menu loop a Left key-down with no item of a submenu
\* highlighted sets the navigation action to Previous and asks for the end
\* of the loop; a Right key-down with the highlight neither on a submenu
\* item nor inside a submenu sets it to Next and asks for the end of the
\* loop; any other message leaves the action as it was.  The action changes
\* only in such a hook call, or back to None when RunMenuAt starts.
C24_NavigationKeys ==
  /\ [](Hooked =>
          IF Resolves(last.c, last.msg) # MENU_ACTION_NONE
          THEN /\ ctl[last.c].menu_action_ = Resolves(last.c, last.msg)
               /\ last.end
               /\ endMenu
          ELSE /\ ctl[last.c].menu_action_ = last.before
               /\ ~last.end)
  /\ [][\A c \in CtlIds :
          ctl'[c].menu_action_ # ctl[c].menu_action_ =>
            \/ /\ last'.op = "MenuMessageHook" /\ last'.c = c /\ last'.end
               /\ ctl'[c].menu_action_ # MENU_ACTION_NONE
            \/ runs' = runs + 1 /\ ctl'[c].menu_action_ = MENU_ACTION_NONE]_vars

\* Right was pressed with the highlight on a command of the top-level menu:
\* the action is Next and the loop has been asked to end.
C24_Witness ==
  /\ Hooked
  /\ last.msg.wParam = "VK_RIGHT"
  /\ Highlighted(ctl[1].menu_) # -1
  /\ ~OnSubmenuItem(1)
  /\ ctl[1].menu_action_ = MENU_ACTION_NEXT
  /\ endMenu

(* ------------------------- label pushes: C25 --------------------------- *)

\* Rebuild, UpdateStates and relabelling of single items, with the model's
\* labels, states and length changing in between.
NextLabels ==
  \/ Next
  \/ SetMenuItemLabelAct(1)

SpecLabels == Init /\ [][NextLabels]_vars

\* The text the OS item of registry entry i (1-based) of controller c holds
\* is the entry's label, and the item data still names that entry.
LabelPushed(c, i) ==
  LET pos == i - 1 + ctl[c].first_item_index_
  IN (ValidPos(World, ctl[c].menu_, pos) /\ ~IsSeparatorItemAt(World, c, pos)) =>
       /\ OsItem(World, ctl[c].menu_, pos).dwTypeData = ctl[c].items_[i].label
       /\ OsItem(World, ctl[c].menu_, pos).dwItemData = [ctl |-> c, model_index |-> i - 1]

\* C25: after any sequence of Rebuild, UpdateStates and SetMenuItemLabel the
\* text every non-separator OS item refers to is the current label of the
\* item's registry entry, in the menu and in its submenus: no replacement of
\* a stored label is left unpushed.
C25_LabelReferenceCurrent ==
  fault = "none" =>
    \A c \in Owned(1) :
      (ctl[c].alive /\ IsMenu(World, ctl[c].menu_)) =>
        \A i \in 1..Len(ctl[c].items_) : LabelPushed(c, i)

\* An item was relabelled with a text the model does not give it, and the OS
\* item shows the entry's new label.
C25_Witness ==
  /\ fault = "none"
  /\ last.op = "SetMenuItemLabel"
  /\ InRange(RootModel, last.index)
  /\ last.label # GetLabelAt(RootModel, last.index)
  /\ ~IsSeparatorItemAt(World, 1, last.index)
  /\ ValidPos(World, ctl[1].menu_, last.index)
  /\ OsItem(World, ctl[1].menu_, last.index).dwTypeData = ctl[1].items_[last.index + 1].label
  /\ ctl[1].items_[last.index + 1].label # <<>>

(* ------------------- what UpdateStates leaves alone: C26 --------------- *)

\* What of controller c no state or label push writes.
Skeleton(c) ==
  [alive |-> ctl[c].alive, model_ |-> ctl[c].model_, menu_ |-> ctl[c].menu_,
   first_item_index_ |-> ctl[c].first_item_index_,
   owner_draw_ |-> ctl[c].owner_draw_,
   menu_action_ |-> ctl[c].menu_action_,
   items_ |-> [i \in DOMAIN ctl[c].items_ |->
                 [submenu |-> ctl[c].items_[i].submenu,
                  native_menu_win |-> ctl[c].items_[i].native_menu_win,
                  model_index |-> ctl[c].items_[i].model_index]]]

\* What of the OS menus no state or label push writes.
OsSkeleton ==
  [h \in Handles |->
     [st |-> os[h].st, style |-> os[h].style, dwMenuData |-> os[h].dwMenuData,
      items |-> [p \in DOMAIN os[h].items |->
                   [fType |-> os[h].items[p].fType, wID |-> os[h].items[p].wID,
                    hSubMenu |-> os[h].items[p].hSubMenu,
                    dwItemData |-> os[h].items[p].dwItemData]]]]

\* Registry entry i (1-based) of controller c is of an item the model does
\* not report as dynamic.
NotDynamic(c, i) ==
  /\ ctl[c].alive
  /\ i \in DOMAIN ctl[c].items_
  /\ InRange(ctl[c].model_, i - 1)
  /\ ~IsItemDynamicAt(ctl[c].model_, i - 1)

\* C26: UpdateStates() leaves the model as it is and writes nothing of a
\* controller but OS item states and the labels of the items the model
\* reports as dynamic: registry length, model indices, child controllers,
\* first-item offset, owner-draw flag and navigation action stay, and so
\* does the stored label of every other item, whatever the model's label.
C26_UpdateStatesFrame ==
  [][(last'.op = "UpdateStates" /\ fault' = "none") =>
       /\ models' = models
       /\ \A c \in CtlIds : Skeleton(c)' = Skeleton(c)
       /\ OsSkeleton' = OsSkeleton
       /\ \A c \in CtlIds : \A i \in 1..MaxItems :
            NotDynamic(c, i) =>
              /\ ctl'[c].items_[i].label = ctl[c].items_[i].label
              /\ LET pos == i - 1 + ctl[c].first_item_index_
                 IN ValidPos(World, ctl[c].menu_, pos) =>
                      OsItem(World, ctl[c].menu_, pos)'.dwTypeData
                        = OsItem(World, ctl[c].menu_, pos).dwTypeData]_vars

\* UpdateStates() has run on a menu with an item that is not dynamic and
\* whose stored label is not the one the model now gives.
C26_Witness ==
  /\ JustUpdated(1)
  /\ \E i \in 1..Len(ctl[1].items_) :
       /\ NotDynamic(1, i)
       /\ GetTypeAt(RootModel, i - 1) # TYPE_SEPARATOR
       /\ Head(ctl[1].items_[i].label) # Head(GetLabelAt(RootModel, i - 1))

(* ---------------------- the steps of RunMenuAt: C27 -------------------- *)

\* RunMenuAt and its loop, with the model's states and length changing
\* between and during the runs.
NextRunAt ==
  \/ RebuildAct(1)
  \/ \E c \in Roots : RunMenuAt(c)
  \/ HookAct
  \/ OsExitMenuLoop
  \/ OsMenuCommand
  \/ RunMenuAtReturn
  \/ RunTask
  \/ ModelSetEnabled
  \/ ModelSetChecked
  \/ ModelRemoveLast

SpecRunAt == InitRun /\ [][NextRunAt]_vars

\* Every non-separator item of controller c and of the submenus it owns
\* shows the model's enabled and checked state.
StatesCurrent(c) ==
  \A d \in Owned(c) : \A i \in 0..(Len(ctl[d].items_) - 1) :
    "MFT_SEPARATOR" \notin Shown(d, i).fType => StateMatches(d, i)

\* The same of the controller of the innermost menu loop.
TopStatesCurrent == StatesCurrent(Top.c)

\* C27: RunMenuAt creates the host window if there is none, pushes the
\* model's states, resets the navigation action and stores the controller
\* in the open-instance slot before the menu loop is entered, and clears the
\* slot only after the loop has returned.  So when the loop is entered every
\* non-separator item shows the model's enabled and checked state as of the
\* call, the action is None and the slot holds the controller; a call that
\* aborts while pushing states has not written the slot.
C27_RunMenuAtOrder ==
  [][/\ (runs' = runs + 1 /\ Len(stack') = Len(stack) + 1) =>
          LET c == stack'[Len(stack')].c
          IN /\ fault' = "none"
             /\ ctl'[c].host_window_
             /\ TopStatesCurrent'
             /\ ctl'[c].menu_action_ = MENU_ACTION_NONE
             /\ open_native_menu_win_' = c
             /\ models' = models
     /\ (runs' = runs + 1 /\ fault' # "none") =>
          /\ open_native_menu_win_' = open_native_menu_win_
          /\ stack' = stack
     /\ (open_native_menu_win_ # NULL /\ open_native_menu_win_' = NULL) =>
          \/ stack # <<>> /\ stack' = SubSeq(stack, 1, Len(stack) - 1) /\ turn.active
          \/ runs' = runs + 1 /\ stack' = stack]_vars

\* The loop has just been entered on a menu in which the model disabled or
\* checked an item after the build, and the item shows it.
C27_Witness ==
  /\ fault = "none"
  /\ stack # <<>>
  /\ ~Top.hooked
  /\ ~turn.active
  /\ open_native_menu_win_ = Top.c
  /\ modelOps > 0
  /\ \E i \in 0..(Len(ctl[Top.c].items_) - 1) :
       /\ "MFT_SEPARATOR" \notin Shown(Top.c, i).fType
       /\ Shown(Top.c, i).fState # {}
       /\ StateMatches(Top.c, i)

(* ------------------------- the host window: C28 ------------------------ *)

\* C28: a controller has constructed no host window before its first
\* RunMenuAt, constructs one only in RunMenuAt, and over any sequence of
\* RunMenuAt, Rebuild and UpdateStates calls constructs at most one, which it
\* holds from then on; the controllers of submenus never construct one.
C28_OneHostWindow ==
  /\ [](\A c \in CtlIds :
          /\ ctl[c].host_windows <= 1
          /\ ctl[c].host_window_ <=> ctl[c].host_windows = 1
          /\ (runs = 0 \/ c \notin Roots) => ctl[c].host_windows = 0)
  /\ [][\A c \in CtlIds :
          /\ ctl'[c].host_windows # ctl[c].host_windows => runs' = runs + 1
          /\ (ctl[c].alive /\ ctl[c].host_window_) => ctl'[c].host_window_]_vars

\* The controller has been rebuilt and has opened its menu a second time,
\* and has constructed one host window.
C28_Witness ==
  /\ fault = "none"
  /\ runs = 2
  /\ builds > 0
  /\ stack # <<>>
  /\ Top.c = 1
  /\ ctl[2].host_windows = 0
  /\ ctl[1].host_windows = 1

(* ----------------------- alignment flags: C29 -------------------------- *)

\* Menus opened one at a time with each of the alignments.
NextAlign ==
  \/ stack = <<>> /\ RebuildAct(1)
  \/ stack = <<>> /\ RunMenuAtTold(1)
  \/ HookAct
  \/ OsMenuSelect
  \/ OsExitMenuLoop
  \/ OsMenuCommand
  \/ RunMenuAtReturn
  \/ RunTask

SpecAlign == InitRun /\ [][NextAlign]_vars

\* How TrackPopupMenuEx places the menu against the point horizontally:
\* bit 0x4 is TPM_CENTERALIGN, bit 0x8 TPM_RIGHTALIGN, neither is left.
HorizontalOf(flags) ==
  IF (flags \div 4) % 2 = 1 THEN "centre"
  ELSE IF (flags \div 8) % 2 = 1 THEN "right"
  ELSE "left"

\* ... and vertically: bit 0x10 is TPM_VCENTERALIGN, bit 0x20
\* TPM_BOTTOMALIGN, neither is top.
VerticalOf(flags) ==
  IF (flags \div 16) % 2 = 1 THEN "centre"
  ELSE IF (flags \div 32) % 2 = 1 THEN "bottom"
  ELSE "top"

\* C29: the flags RunMenuAt tracks the menu with are top-aligned, and
\* horizontally left-aligned for top-left, right-aligned for top-right and
\* centre-aligned for top-center, so that the three alignments differ in
\* their horizontal flags.
C29_AlignmentFlags ==
  last.op = "RunMenuAt" =>
    /\ VerticalOf(last.flags) = "top"
    /\ HorizontalOf(last.flags) =
         CASE last.alignment = "ALIGN_TOPLEFT" -> "left"
           [] last.alignment = "ALIGN_TOPRIGHT" -> "right"
           [] last.alignment = "ALIGN_TOPCENTER" -> "centre"

(* --------------------- the hook's controller: C30 ---------------------- *)

\* C30: whenever the message hook runs, that is whenever a menu loop is
\* retrieving messages, open_native_menu_win_ is not NULL and points to a
\* live controller, so the hook never dereferences NULL; nested RunMenuAt
\* calls that return while an outer loop is active included.
C30_HookFindsController ==
  /\ fault # "this_ptr is NULL in MenuMessageHook"
  /\ (fault = "none" /\ stack # <<>> /\ ~turn.active) =>
       /\ open_native_menu_win_ # NULL
       /\ ctl[open_native_menu_win_].alive

(* ------------------ closed notices and destruction: C31 ---------------- *)

\* Menus opened one at a time, and the controller destroyed between or
\* after them, with OnMenuClosed tasks posted or not.
NextClose ==
  \/ stack = <<>> /\ RebuildAct(1)
  \/ stack = <<>> /\ RunMenuAt(1)
  \/ HookAct
  \/ OsMenuSelect
  \/ OsExitMenuLoop
  \/ OsMenuCommand
  \/ RunMenuAtReturn
  \/ RunTask
  \/ DestroyAct(1)

SpecClose == InitRun /\ [][NextClose]_vars

\* C31: an OnMenuClosed task that WM_EXITMENULOOP has posted and that has
\* not run when the controller, and with it the host window, is destroyed
\* never runs: every posted task is of a live controller that holds a host
\* window, and every MenuClosed call is made through a live controller.
C31_ClosedDroppedOnDestroy ==
  /\ [](/\ fault # "OnMenuClosed on a destroyed MenuHostWindow"
        /\ \A k \in 1..Len(msgs.tasks) :
             /\ ctl[msgs.tasks[k].host].alive
             /\ ctl[msgs.tasks[k].host].host_window_)
  /\ [][msgs'.closed # msgs.closed =>
          /\ msgs.tasks # <<>>
          /\ ctl[Head(msgs.tasks).host].alive
          /\ ctl'[Head(msgs.tasks).host].alive]_vars

\* The controller was destroyed with an OnMenuClosed task posted and not yet
\* run; the task is gone and the model was not told MenuClosed for that exit.
C31_Witness ==
  /\ fault = "none"
  /\ last.op = "~NativeMenuWin"
  /\ ~ctl[1].alive
  /\ msgs.exits > msgs.closed
  /\ msgs.tasks = <<>>

(* ------------------------ the listener list: C32 ----------------------- *)

MaxRegistered == 3

\* The listeners an application registers and asks to remove.
Registrants == {"L1", "L2"}

\* AddMenuListener(listener), leaving a record of the call.
AddMenuListenerTold(c) ==
  /\ Callable
  /\ ctl[c].alive
  /\ Len(ctl[c].listeners_) < MaxRegistered
  /\ \E l \in Registrants :
       /\ ctl' = [ctl EXCEPT ![c].listeners_ = Append(@, l)]
       /\ last' = [op |-> "AddMenuListener", c |-> c, twice |-> FALSE,
                   whileOpen |-> InLoop(c), listener |-> l,
                   before |-> ctl[c].listeners_]
  /\ UNCHANGED <<modelVars, os, sysMenu, fault, loopVars>>

\* RemoveMenuListener(listener), of a registered listener or not, leaving a
\* record of the call.
RemoveMenuListenerTold(c) ==
  /\ Callable
  /\ ctl[c].alive
  /\ \E l \in Registrants :
       /\ ctl' = [ctl EXCEPT ![c].listeners_ = RemoveFirst(@, l)]
       /\ last' = [op |-> "RemoveMenuListener", c |-> c, twice |-> FALSE,
                   whileOpen |-> InLoop(c), listener |-> l,
                   before |-> ctl[c].listeners_]
  /\ UNCHANGED <<modelVars, os, sysMenu, fault, loopVars>>

\* Listeners registered before the first opening and removed at any time,
\* menus opened one at a time.
NextListen ==
  \/ stack = <<>> /\ RebuildAct(1)
  \/ runs = 0 /\ AddMenuListenerTold(1)
  \/ RemoveMenuListenerTold(1)
  \/ stack = <<>> /\ RunMenuAt(1)
  \/ HookAct
  \/ OsExitMenuLoop
  \/ OsMenuCommand
  \/ RunMenuAtReturn
  \/ RunTask

\* A menu of one command.
InitListen ==
  /\ models = [m \in ModelIds |->
                 [items |-> <<NewItem(IF m = RootModel THEN TYPE_COMMAND ELSE TYPE_CHECK)>>,
                  icons |-> FALSE,
                  system |-> FALSE]]
  /\ InitCommon

SpecListen == InitListen /\ [][NextListen]_vars

\* q without its element at index k.
Without(q, k) ==
  [i \in 1..(Len(q) - 1) |-> IF i < k THEN q[i] ELSE q[i + 1]]

\* The index of the first occurrence of x in q.
FirstOf(q, x) == CHOOSE k \in 1..Len(q) : q[k] = x /\ \A j \in 1..(k - 1) : q[j] # x

\* C32: the listener list is a multiset in registration order.
\* AddMenuListener appends, whether the listener is on the list or not;
\* RemoveMenuListener erases the first occurrence only and does nothing for
\* a listener that is not on the list; the first hook call of a menu loop
\* tells OnMenuOpened to the list as it then is, once per occurrence and in
\* list order, and later hook calls tell nobody.
C32_ListenerMultiset ==
  /\ [](last.op = "AddMenuListener" =>
          ctl[last.c].listeners_ = Append(last.before, last.listener))
  /\ [](last.op = "RemoveMenuListener" =>
          ctl[last.c].listeners_ =
            IF \E k \in 1..Len(last.before) : last.before[k] = last.listener
            THEN Without(last.before, FirstOf(last.before, last.listener))
            ELSE last.before)
  /\ [][(stack # <<>> /\ Len(stack') = Len(stack)) =>
          stack'[Len(stack')].notified =
            IF ~Top.hooked /\ stack'[Len(stack')].hooked
            THEN ctl[Top.c].listeners_
            ELSE Top.notified]_vars

\* With the menu open the listeners were told OnMenuOpened as registered,
\* L1, L2, L1, and then L1 was removed: L2, L1 are left.
C32_Witness ==
  /\ fault = "none"
  /\ stack # <<>>
  /\ Top.notified = <<"L1", "L2", "L1">>
  /\ last.op = "RemoveMenuListener"
  /\ last.listener = "L1"
  /\ last.before = <<"L1", "L2", "L1">>
  /\ ctl[1].listeners_ = <<"L2", "L1">>

(* -------------------- select with no menu handle: C33 ------------------ *)

\* C33: a WM_MENUSELECT with a NULL menu handle, as sent while the menu
\* closes, reaches no model and leaves every controller, the OS menus, the
\* slot and the posted tasks as they were, and the process running.
C33_NullSelectIgnored ==
  [][last'.op = "OnMenuSelect of no menu" =>
       /\ ~last'.called
       /\ fault' = fault
       /\ ctl' = ctl
       /\ os' = os
       /\ models' = models
       /\ msgs' = msgs
       /\ open_native_menu_win_' = open_native_menu_win_]_vars

\* The notice arrived while a built menu with a command was open, with a low
\* word that is the id of one of its items.
C33_Witness ==
  /\ fault = "none"
  /\ last.op = "OnMenuSelect of no menu"
  /\ stack # <<>>
  /\ IsMenu(World, Top.menu)
  /\ \E p \in 1..Len(os[Top.menu].items) : os[Top.menu].items[p].wID = last.w_param
  /\ ~last.called

(* ----------------- the indices UpdateStates asks for: C34 -------------- *)

\* C34: UpdateStates() asks the model about indices below the model's
\* current item count only, whatever the model has done since the last
\* Rebuild: no call of it ends with an index out of the model's range.
C34_UpdateStatesIndicesValid ==
  last.op = "UpdateStates" =>
    /\ fault # "model index out of range"
    /\ \A d \in Owned(last.c) : Len(ctl[d].items_) <= GetItemCount(ctl[d].model_)

(* ----------------------- owner-draw measure: C35 ----------------------- *)

kIconWidth == 23
kItemTopMargin == 3
kItemBottomMargin == 4
kItemLeftMargin == 4
kItemRightMargin == 10
kArrowWidth == 10

\* gfx::Font() as the handler sees it: the height of the default font, the
\* width of a space and the width of any other piece of a label.
Fonts == {[height |-> 15, space |-> 3, piece |-> 7],
          [height |-> 18, space |-> 4, piece |-> 9]}

\* GetSystemMetrics(SM_CXMENUCHECK) and GetSystemMetrics(SM_CYMENU).
SystemMetrics == {[SM_CXMENUCHECK |-> 13, SM_CYMENU |-> 19],
                  [SM_CXMENUCHECK |-> 15, SM_CYMENU |-> 20]}

\* font.GetStringWidth(text).
GetStringWidth(font, text) ==
  font.piece * Cardinality({k \in 1..Len(text) : text[k] # " "})
    + font.space * Cardinality({k \in 1..Len(text) : text[k] = " "})

\* The itemData of a MEASUREITEMSTRUCT that is 0: it points to no entry.
NoItemData == [ctl |-> NULL, model_index |-> 0]

\* GetItemData: the registry entry an item's dwItemData points to.
GetItemData(w, item_data) == w.ctl[item_data.ctl].items_[item_data.model_index + 1]

\* OnMeasureItem without the room for the submenu arrow.
OnMeasureItemNoArrow(w, itemData, font, metrics) ==
  IF itemData.ctl # NULL
  THEN LET data == GetItemData(w, itemData)
       IN [itemWidth |-> GetStringWidth(font, data.label) + kIconWidth + kItemLeftMargin
                           + kItemRightMargin - metrics.SM_CXMENUCHECK
                           + (IF \E k \in 1..Len(data.label) : data.label[k] = "\t"
                              THEN GetStringWidth(font, <<" ">>)
                              ELSE 0),
           itemHeight |-> font.height + kItemBottomMargin + kItemTopMargin]
  ELSE [itemWidth |-> 0, itemHeight |-> metrics.SM_CYMENU \div 2]

\* MenuHostWindow::OnMeasureItem: what it writes to the MEASUREITEMSTRUCT.
OnMeasureItem(w, itemData, font, metrics) ==
  IF itemData.ctl # NULL
  THEN LET data == GetItemData(w, itemData)
       IN [itemWidth |-> GetStringWidth(font, data.label) + kIconWidth + kItemLeftMargin
                           + kItemRightMargin - metrics.SM_CXMENUCHECK
                           + (IF data.submenu # NULL THEN kArrowWidth ELSE 0)
                           + (IF \E k \in 1..Len(data.label) : data.label[k] = "\t"
                              THEN GetStringWidth(font, <<" ">>)
                              ELSE 0),
           itemHeight |-> font.height + kItemBottomMargin + kItemTopMargin]
  ELSE [itemWidth |-> 0, itemHeight |-> metrics.SM_CYMENU \div 2]

\* The item data of the measure requests the open menu can cause: of each
\* owner-drawn item of the menu and its submenus, and none.
Measurable ==
  {NoItemData} \cup
  UNION {{os[h].items[p].dwItemData :
            p \in {q \in 1..Len(os[h].items) : "MFT_OWNERDRAW" \in os[h].items[q].fType}} :
         h \in {g \in DestroyMenuSet(World, Top.menu) : IsMenu(World, g)}}

\* WM_MEASUREITEM reaches the host window while a menu is open.
OsMeasureItem ==
  /\ Callable
  /\ stack # <<>>
  /\ ctl[Top.c].host_window_
  /\ \E itemData \in Measurable : \E font \in Fonts : \E metrics \in SystemMetrics :
       LET r == OnMeasureItem(World, itemData, font, metrics)
       IN last' = [op |-> "OnMeasureItem", c |-> Top.c, twice |-> FALSE,
                   whileOpen |-> TRUE, itemData |-> itemData, font |-> font,
                   metrics |-> metrics, itemWidth |-> r.itemWidth,
                   itemHeight |-> r.itemHeight]
  /\ UNCHANGED <<modelVars, worldVars, loopVars>>

\* Owner-drawn menus opened one at a time and measured.
NextMeasure ==
  \/ stack = <<>> /\ RebuildAct(1)
  \/ stack = <<>> /\ RunMenuAt(1)
  \/ OsMeasureItem
  \/ HookAct
  \/ OsExitMenuLoop
  \/ OsMenuCommand
  \/ RunMenuAtReturn
  \/ RunTask

SpecMeasure == InitDraw /\ [][NextMeasure]_vars

\* The width OnMeasureItem gives an entry with the label `text` that owns
\* neither a submenu nor an accelerator.
PlainWidth(font, metrics, text) ==
  GetStringWidth(font, text) + kIconWidth + kItemLeftMargin + kItemRightMargin
    - metrics.SM_CXMENUCHECK

\* C35: a measure request without item data, a separator's, gets width 0
\* and half the system menu height; one with item data gets the font height
\* plus the top and bottom margins, and the width of its label, icon column
\* and margins, wider by the arrow width if the entry owns a submenu and by
\* the width of a space if the label holds the accelerator's tab.
C35_MeasureItem ==
  last.op = "OnMeasureItem" =>
    IF last.itemData = NoItemData
    THEN /\ last.itemWidth = 0
         /\ 2 * last.itemHeight \in {last.metrics.SM_CYMENU - 1, last.metrics.SM_CYMENU}
    ELSE LET entry == ctl[last.itemData.ctl].items_[last.itemData.model_index + 1]
             tab == "\t" \in Range(entry.label)
         IN /\ last.itemHeight = last.font.height + kItemTopMargin + kItemBottomMargin
            /\ last.itemWidth = PlainWidth(last.font, last.metrics, entry.label)
                                  + (IF entry.submenu # NULL THEN kArrowWidth ELSE 0)
                                  + (IF tab THEN last.font.space ELSE 0)

\* The item of a submenu was measured: its width has the room for the arrow
\* and none for a tab.
C35_Witness ==
  /\ last.op = "OnMeasureItem"
  /\ last.itemData # NoItemData
  /\ ctl[last.itemData.ctl].items_[last.itemData.model_index + 1].submenu # NULL
  /\ last.itemWidth = PlainWidth(last.font, last.metrics,
                        ctl[last.itemData.ctl].items_[last.itemData.model_index + 1].label)
                        + kArrowWidth

(* ------------- the about: pages: AboutSource and its handlers ---------- *)
\* browser_about_handler.cc. The hosts of the about: pages, by the names
\* chrome/common/url_constants gives them.
kChromeUIAboutHost == "about"
kChromeUICacheHost == "cache"
kChromeUIChromeURLsHost == "chrome-urls"
kChromeUICreditsHost == "credits"
kChromeUIDNSHost == "dns"
kChromeUIGpuHost == "gpu"
kChromeUIHistogramsHost == "histograms"
kChromeUIMemoryHost == "memory"
kChromeUIMemoryRedirectHost == "memory-redirect"
kChromeUIStatsHost == "stats"
kChromeUISyncHost == "sync"
kChromeUITasksHost == "tasks"
kChromeUITCMallocHost == "tcmalloc"
kChromeUITermsHost == "terms"
kChromeUIVersionHost == "version"
kChromeUILinuxProxyConfigHost == "linux-proxy-config"
kChromeUISandboxHost == "sandbox"
kChromeUINetworkHost == "network"
kChromeUICryptohomeHost == "cryptohome"
kChromeUIOSCreditsHost == "os-credits"

\* How many data requests the ChromeURLDataManager starts.
MaxRequests == 2

\* What chrome_browser_net::PredictorGetHtmlInfo can report when it is asked.
PredictorInfo == {"predictor page 1", "predictor page 2"}

\* A host no branch of StartDataRequest names.
UnrecognisedHost == "no-such-page"

\* BrowserThread::PostTask: the task joins the end of the named thread's
\* queue.
PostTask(a, thread, task) ==
  [a EXCEPT !.queue[thread] = Append(@, task)]

\* AboutSource::FinishDataRequest: copy the html into a byte buffer of the
\* same size and SendResponse it under the request id. The thread it was
\* called on is kept with the response.
FinishDataRequest(a, html, request_id, thread) ==
  [a EXCEPT !.responses =
     Append(@, [id |-> request_id, body |-> html, thread |-> thread])]

\* AboutDnsHandler::StartOnUIThread: bounce to the IO thread.
StartOnUIThread(a, handler) ==
  PostTask(a, "IO", [method |-> "StartOnIOThread", handler |-> handler,
                     data |-> ""])

\* AboutDnsHandler::Start: a new handler that keeps the request id, started
\* on the calling thread.
AboutDnsHandlerStart(a, request_id) ==
  StartOnUIThread(a, [source_ |-> kChromeUIDNSHost, request_id_ |-> request_id])

\* StartOnIOThread, were it to answer from the IO thread itself.
StartOnIOThreadFinishesInline(a, handler, data, thread) ==
  FinishDataRequest(
    [a EXCEPT !.collected = Append(@, [id |-> handler.request_id_,
                                       data |-> data, thread |-> thread])],
    data, handler.request_id_, thread)

\* AboutDnsHandler::StartOnIOThread: collect the predictor's page, then post
\* FinishOnUIThread with it to the UI thread.
StartOnIOThread(a, handler, data, thread) ==
  PostTask(
    [a EXCEPT !.collected = Append(@, [id |-> handler.request_id_,
                                       data |-> data, thread |-> thread])],
    "UI", [method |-> "FinishOnUIThread", handler |-> handler, data |-> data])

\* AboutDnsHandler::FinishOnUIThread: feed the data to the source under the
\* handler's own request id.
FinishOnUIThread(a, handler, data, thread) ==
  FinishDataRequest(a, data, handler.request_id_, thread)

\* AboutMemory, ChromeOSAboutVersionHandler and ChromeOSTermsHandler::Start:
\* a handler of the given kind now holds the request id and answers when its
\* fetch completes.
StartHandler(a, kind, request_id) ==
  [a EXCEPT !.waiting = @ \cup {[kind |-> kind, request_id_ |-> request_id]}]

AboutMemory(a, request_id) == StartHandler(a, "AboutMemoryHandler", request_id)

ChromeOSAboutVersionHandler(a, request_id) ==
  StartHandler(a, "ChromeOSAboutVersionHandler", request_id)

ChromeOSTermsHandlerStart(a, request_id) ==
  StartHandler(a, "ChromeOSTermsHandler", request_id)

\* The hosts StartDataRequest computes a page for at once, under a build.
SyncHosts(b) ==
  {kChromeUIHistogramsHost, kChromeUIMemoryHost, kChromeUIStatsHost,
   kChromeUICreditsHost, kChromeUIChromeURLsHost}
  \cup (IF b.track_tasks THEN {kChromeUITasksHost} ELSE {})
  \cup (IF b.tcmalloc THEN {kChromeUITCMallocHost} ELSE {})
  \cup (IF b.chromeos
        THEN {kChromeUIOSCreditsHost, kChromeUINetworkHost,
              kChromeUICryptohomeHost}
        ELSE {kChromeUIVersionHost, kChromeUITermsHost})
  \cup (IF b.linux THEN {kChromeUILinuxProxyConfigHost, kChromeUISandboxHost}
        ELSE {})

\* The page of a host: AboutHistograms, AboutStats, ChromeURLs and the rest
\* each return their own non-empty html.
Page(host) == "<html>" \o host \o "</html>"

\* StartDataRequest, were the dns branch to lack its return.
StartDataRequestFallsThrough(a, host, request_id) ==
  IF host = kChromeUIDNSHost
  THEN FinishDataRequest(AboutDnsHandlerStart(a, request_id), "", request_id,
                         "UI")
  ELSE IF host = kChromeUIMemoryRedirectHost
  THEN AboutMemory(a, request_id)
  ELSE IF host = kChromeUIVersionHost /\ a.build.chromeos
  THEN ChromeOSAboutVersionHandler(a, request_id)
  ELSE IF host = kChromeUITermsHost /\ a.build.chromeos
  THEN ChromeOSTermsHandlerStart(a, request_id)
  ELSE FinishDataRequest(
         a, IF host \in SyncHosts(a.build) THEN Page(host) ELSE "",
         request_id, "UI")

\* AboutSource::StartDataRequest on the source named host: the asynchronous
\* hosts start their handler and return; every other host, named by a branch
\* or not, reaches the FinishDataRequest at the end with the response it has.
StartDataRequest(a, host, request_id) ==
  IF host = kChromeUIDNSHost
  THEN AboutDnsHandlerStart(a, request_id)
  ELSE IF host = kChromeUIMemoryRedirectHost
  THEN AboutMemory(a, request_id)
  ELSE IF host = kChromeUIVersionHost /\ a.build.chromeos
  THEN ChromeOSAboutVersionHandler(a, request_id)
  ELSE IF host = kChromeUITermsHost /\ a.build.chromeos
  THEN ChromeOSTermsHandlerStart(a, request_id)
  ELSE FinishDataRequest(
         a, IF host \in SyncHosts(a.build) THEN Page(host) ELSE "",
         request_id, "UI")

\* The hosts an AboutSource is asked under.
RequestHosts ==
  {kChromeUIChromeURLsHost, kChromeUICreditsHost, kChromeUIDNSHost,
   kChromeUIHistogramsHost, kChromeUIMemoryHost, kChromeUIMemoryRedirectHost,
   kChromeUIStatsHost, kChromeUITermsHost, kChromeUIVersionHost,
   kChromeUITasksHost, kChromeUITCMallocHost, kChromeUILinuxProxyConfigHost,
   kChromeUISandboxHost, kChromeUINetworkHost, kChromeUICryptohomeHost,
   kChromeUIOSCreditsHost, UnrecognisedHost}

menuVars ==
  <<models, modelOps, needOverrideFont, worldVars, last, loopVars>>

\* The ChromeURLDataManager, on the UI thread, asks a source for a page under
\* the next request id.
StartDataRequestAct ==
  /\ Len(about.started) < MaxRequests
  /\ \E host \in RequestHosts :
       LET id == Len(about.started) + 1 IN
       about' = StartDataRequest(
                  [about EXCEPT !.started = Append(@, [id |-> id, host |-> host])],
                  host, id)
  /\ UNCHANGED menuVars

\* A browser thread's message loop runs the task at the head of its queue.
RunBrowserTask(thread) ==
  /\ about.queue[thread] # <<>>
  /\ LET task == Head(about.queue[thread])
         a == [about EXCEPT !.queue[thread] = Tail(@)]
     IN IF task.method = "StartOnIOThread"
        THEN \E data \in PredictorInfo :
               about' = StartOnIOThread(a, task.handler, data, thread)
        ELSE about' = FinishOnUIThread(a, task.handler, task.data, thread)
  /\ UNCHANGED menuVars

\* A waiting handler's fetch completes on the UI thread
\* (AboutMemoryHandler::OnDetailsAvailable, ChromeOSAboutVersionHandler::
\* OnVersion, ChromeOSTermsHandler::ResponseOnUIThread): it finishes the
\* request under the id it holds.
HandlerCompletes ==
  /\ \E h \in about.waiting :
       about' = FinishDataRequest([about EXCEPT !.waiting = @ \ {h}],
                                  Page(h.kind), h.request_id_, "UI")
  /\ UNCHANGED menuVars

InitAbout ==
  /\ models = [m \in ModelIds |->
                 [items |-> <<>>, icons |-> FALSE, system |-> FALSE]]
  /\ modelOps = 0
  /\ needOverrideFont = FALSE
  /\ about \in {AboutIdle(b) : b \in Builds}
  /\ ctl = [c \in CtlIds |-> FreeCtl]
  /\ os = [h \in Handles |-> FreeMenu]
  /\ sysMenu = NULL
  /\ fault = "none"
  /\ InitRunVars

NextAbout ==
  \/ StartDataRequestAct
  \/ RunBrowserTask("IO")
  \/ RunBrowserTask("UI")
  \/ HandlerCompletes

SpecAbout == InitAbout /\ [][NextAbout]_vars

\* Each browser thread keeps running the tasks posted to it.
SpecAboutFair ==
  /\ SpecAbout
  /\ WF_vars(RunBrowserTask("IO"))
  /\ WF_vars(RunBrowserTask("UI"))

\* The ids of the dns requests started so far.
DnsStarted ==
  {about.started[k].id : k \in {j \in 1..Len(about.started) :
                                  about.started[j].host = kChromeUIDNSHost}}

ResponsesFor(id) ==
  {k \in 1..Len(about.responses) : about.responses[k].id = id}

CollectedFor(id) ==
  {k \in 1..Len(about.collected) : about.collected[k].id = id}

\* A dns request is in exactly one place: waiting for the IO thread, waiting
\* for the UI thread with the data collected for it on the IO thread, or
\* answered once, from the UI thread, with that data.
DnsInOrder(id) ==
  LET onIO == {k \in 1..Len(about.queue["IO"]) :
                 about.queue["IO"][k].handler.request_id_ = id}
      onUI == {k \in 1..Len(about.queue["UI"]) :
                 about.queue["UI"][k].handler.request_id_ = id}
      sent == ResponsesFor(id)
      got == CollectedFor(id)
  IN /\ Cardinality(onIO) + Cardinality(onUI) + Cardinality(sent) = 1
     /\ Cardinality(got) = IF onIO = {} THEN 1 ELSE 0
     /\ \A k \in got : about.collected[k].thread = "IO"
     /\ \A k \in onUI : \E g \in got :
          about.queue["UI"][k].data = about.collected[g].data
     /\ \A k \in sent :
          /\ about.responses[k].thread = "UI"
          /\ \E g \in got : about.responses[k].body = about.collected[g].data

\* C36: every started dns request is answered by exactly one FinishDataRequest
\* under its own id, run on the UI thread after the collection ran on the IO
\* thread, whatever the interleaving of the requests; and once both threads
\* keep running their tasks the answer does come.
C36_DnsHandlerOrder ==
  /\ [](\A id \in DnsStarted : DnsInOrder(id))
  /\ \A id \in 1..MaxRequests :
       (id \in DnsStarted) ~> (Cardinality(ResponsesFor(id)) = 1)

\* Two dns requests have been answered, each with the data collected for it,
\* and the two collections differed.
C36_Witness ==
  /\ DnsStarted = {1, 2}
  /\ \A id \in DnsStarted :
       /\ DnsInOrder(id)
       /\ Cardinality(ResponsesFor(id)) = 1
  /\ about.collected[1].data # about.collected[2].data

\* The hosts whose request is handed to an asynchronous handler, under a
\* build.
Delegated(b) ==
  {kChromeUIDNSHost, kChromeUIMemoryRedirectHost}
  \cup (IF b.chromeos THEN {kChromeUIVersionHost, kChromeUITermsHost} ELSE {})

\* The request StartDataRequest has just been called with, in the next state.
Asked == about.started[Len(about.started)]

\* C37: StartDataRequest answers every request exactly once: under a host
\* handled at once, or a host it does not recognise (then with an empty
\* body), it has called FinishDataRequest exactly once, for the request's id,
\* when it returns; under a host delegated to an asynchronous handler (dns,
\* memory-redirect, and on Chrome OS version and terms) it returns without
\* calling FinishDataRequest; and no request ever has two responses.
C37_AnsweredOnce ==
  /\ [][Len(about'.started) = Len(about.started) + 1 =>
          IF Asked'.host \in Delegated(about.build)
          THEN about'.responses = about.responses
          ELSE /\ Len(about'.responses) = Len(about.responses) + 1
               /\ SubSeq(about'.responses, 1, Len(about.responses))
                    = about.responses
               /\ about'.responses[Len(about'.responses)].id = Asked'.id
               /\ Asked'.host = UnrecognisedHost
                    => about'.responses[Len(about'.responses)].body = ""]_vars
  /\ [](\A id \in 1..MaxRequests : Cardinality(ResponsesFor(id)) <= 1)

\* A request under an unrecognised host has its one, empty, response, and a
\* request for the version page of a Chrome OS build started after it is with
\* its handler and has none.
C37_Witness ==
  /\ about.build.chromeos
  /\ Len(about.started) = 2
  /\ about.started[1].host = UnrecognisedHost
  /\ about.started[2].host = kChromeUIVersionHost
  /\ about.responses = <<[id |-> 1, body |-> "", thread |-> "UI"]>>
  /\ \E h \in about.waiting : h.request_id_ = 2

(* ----------------------- WillHandleBrowserAboutURL --------------------- *)
kChromeUIScheme == "chrome"
kAboutScheme == "about"
kChromeUINetworkViewCacheHost == "view-http-cache"
kChromeUIGpuInternalsHost == "gpu-internals"
kChromeUISyncInternalsHost == "sync-internals"
kChromeUIBrowserCrashHost == "inducebrowsercrashforrealz"
kChromeUIGpuCleanHost == "gpuclean"
kChromeUIGpuCrashHost == "gpucrash"
kChromeUIGpuHangHost == "gpuhang"
kChromeUICrashHost == "crash"

\* kAboutSourceNames, as the build compiles it.
kAboutSourceNames(b) ==
  {kChromeUIChromeURLsHost, kChromeUICreditsHost, kChromeUIDNSHost,
   kChromeUIHistogramsHost, kChromeUIMemoryHost, kChromeUIMemoryRedirectHost,
   kChromeUIStatsHost, kChromeUITermsHost, kChromeUIVersionHost}
  \cup (IF b.track_tasks THEN {kChromeUITasksHost} ELSE {})
  \cup (IF b.tcmalloc THEN {kChromeUITCMallocHost} ELSE {})
  \cup (IF b.linux THEN {kChromeUILinuxProxyConfigHost, kChromeUISandboxHost}
        ELSE {})
  \cup (IF b.chromeos
        THEN {kChromeUINetworkHost, kChromeUICryptohomeHost,
              kChromeUIOSCreditsHost}
        ELSE {})

\* InitializeAboutDataSource, were it to register whatever name it is given.
InitializeAboutDataSourceAny(a, name) ==
  [a EXCEPT !.sources = @ \cup {name}]

\* InitializeAboutDataSource: AddDataSource(new AboutSource(name)) for the
\* first entry of kAboutSourceNames equal to name, nothing for a name the
\* table does not hold. The manager keeps one source per name.
InitializeAboutDataSource(a, name) ==
  IF name \in kAboutSourceNames(a.build)
  THEN [a EXCEPT !.sources = @ \cup {name}]
  ELSE a

\* URLFixerUpper::FixupURL on the URLs here: about:blank stays, every other
\* about:foo becomes chrome://foo/, and a URL of another scheme is unchanged.
FixupURL(url) ==
  IF url.scheme = kAboutScheme /\ url.host # "blank"
  THEN [scheme |-> kChromeUIScheme, host |-> url.host]
  ELSE url

\* chrome_about_handler::WillHandle: the URLs the renderer process acts on
\* itself.
RendererWillHandle(url) ==
  url.scheme = kChromeUIScheme /\ url.host = kChromeUICrashHost

\* The message WillHandleBrowserAboutURL sends to the GPU process for a host.
GpuMessageFor(host) ==
  IF host = kChromeUIGpuCleanHost THEN "GpuMsg_Clean"
  ELSE IF host = kChromeUIGpuCrashHost THEN "GpuMsg_Crash"
  ELSE IF host = kChromeUIGpuHangHost THEN "GpuMsg_Hang"
  ELSE "none"

\* WillHandleBrowserAboutURL(url, profile): what it returns, whether it
\* returns at all, the URL it leaves in *url, the message it sends to the GPU
\* process and the data sources afterwards.
WillHandleBrowserAboutURL(a, url) ==
  LET fixed == FixupURL(url)
      host0 == fixed.host
      host1 == IF host0 = kChromeUIAboutHost THEN kChromeUIChromeURLsHost
               ELSE host0
      host == IF host1 = kChromeUICacheHost THEN kChromeUINetworkViewCacheHost
              ELSE IF host1 = kChromeUIGpuHost THEN kChromeUIGpuInternalsHost
              ELSE IF host1 = kChromeUISyncHost THEN kChromeUISyncInternalsHost
              ELSE host1
      replaced == [fixed EXCEPT !.host = host]
  IN IF fixed.scheme # kChromeUIScheme
     THEN [returned |-> TRUE, ret |-> FALSE, url |-> fixed, gpu |-> "none",
           about |-> a]
     ELSE IF RendererWillHandle(fixed)
     THEN [returned |-> TRUE, ret |-> FALSE, url |-> fixed, gpu |-> "none",
           about |-> a]
     ELSE IF host = kChromeUIBrowserCrashHost
     THEN [returned |-> FALSE, ret |-> FALSE, url |-> replaced, gpu |-> "none",
           about |-> a]
     ELSE [returned |-> TRUE, ret |-> TRUE, url |-> replaced,
           gpu |-> GpuMessageFor(host),
           about |-> InitializeAboutDataSource(a, host)]

\* The URLs navigated to: the aliases, hosts that are about sources in every
\* build or in some, hosts that are none, the crash and GPU hosts, under the
\* chrome and about schemes and a scheme that is neither.
UrlHosts ==
  {kChromeUIAboutHost, kChromeUICacheHost, kChromeUIGpuHost, kChromeUISyncHost,
   kChromeUIDNSHost, kChromeUIVersionHost, kChromeUITasksHost,
   kChromeUINetworkHost, kChromeUISandboxHost, kChromeUISyncInternalsHost,
   "blank", "settings", kChromeUICrashHost, kChromeUIBrowserCrashHost,
   kChromeUIGpuCleanHost, kChromeUIGpuCrashHost, kChromeUIGpuHangHost}

Urls == [scheme : {kChromeUIScheme, kAboutScheme, "http"}, host : UrlHosts]

\* The browser navigates to a URL and asks WillHandleBrowserAboutURL. The
\* CHECK(false) of the browser-crash host ends the process.
WillHandleAct ==
  /\ fault = "none"
  /\ \E url \in Urls :
       LET r == WillHandleBrowserAboutURL(about, url) IN
       /\ about' = r.about
       /\ fault' = IF r.returned THEN "none" ELSE "CHECK(false)"
       /\ last' = [op |-> "WillHandleBrowserAboutURL", c |-> NULL,
                   twice |-> FALSE, whileOpen |-> FALSE, in |-> url,
                   out |-> r.url, returned |-> r.returned, ret |-> r.ret,
                   gpu |-> r.gpu, before |-> about.sources]
  /\ UNCHANGED <<models, modelOps, needOverrideFont, ctl, os, sysMenu, loopVars>>

NextWillHandle == WillHandleAct

SpecWillHandle == InitAbout /\ [][NextWillHandle]_vars

\* The alias table of the hosts.
AliasOf(host) ==
  CASE host = "about" -> "chrome-urls"
    [] host = "cache" -> "view-http-cache"
    [] host = "gpu" -> "gpu-internals"
    [] host = "sync" -> "sync-internals"
    [] OTHER -> host

\* The call is declined: it returned false and registered nothing.
Declined ==
  /\ last.returned
  /\ ~last.ret
  /\ about.sources = last.before

\* The call is accepted: it returned true with the host rewritten by the
\* alias table, and registered the rewritten host if it is a known
\* about-source name, and nothing else.
Accepted ==
  /\ last.returned
  /\ last.ret
  /\ last.out = [scheme |-> "chrome", host |-> AliasOf(FixupURL(last.in).host)]
  /\ about.sources =
       last.before \cup ({last.out.host} \cap kAboutSourceNames(about.build))

ForRendererOrOtherScheme ==
  \/ FixupURL(last.in).scheme # "chrome"
  \/ RendererWillHandle(FixupURL(last.in))

\* C38 as stated: WillHandleBrowserAboutURL returns false and registers
\* nothing when the fixed-up URL is not of the chrome scheme or the renderer
\* handles it; for every other URL it returns true with the host rewritten by
\* the alias table and registers a source only for a known about-source name.
C38_WillHandleAlwaysReturns ==
  last.op = "WillHandleBrowserAboutURL" =>
    IF ForRendererOrOtherScheme THEN Declined ELSE Accepted

\* C38, amended: the same, except for the browser-crash host, for which the
\* call does not return: the process is aborted with the host rewritten and
\* no data source registered.
C38_WillHandle ==
  last.op = "WillHandleBrowserAboutURL" =>
    IF ForRendererOrOtherScheme THEN Declined
    ELSE IF FixupURL(last.in).host = "inducebrowsercrashforrealz"
    THEN /\ ~last.returned
         /\ fault # "none"
         /\ about.sources = last.before
    ELSE Accepted /\ fault = "none"

\* about:about has been accepted as chrome://chrome-urls/ and the chrome-urls
\* source registered, the first source of the profile.
C38_Witness ==
  /\ last.op = "WillHandleBrowserAboutURL"
  /\ last.in = [scheme |-> "about", host |-> "about"]
  /\ last.out = [scheme |-> "chrome", host |-> "chrome-urls"]
  /\ last.ret
  /\ last.before = {}
  /\ about.sources = {"chrome-urls"}

====
